---- MODULE Spec2Model ----
(***************************************************************************)
(* A model of rlox, a tree-walking interpreter for Lox written in Rust.    *)
(*                                                                         *)
(*   env.rs          scope frames (Environment) and their operations       *)
(*   loxvalue.rs     run-time values, functions, classes, instances        *)
(*   resolver.rs     the static pass that computes hop distances           *)
(*   interpreter.rs  the evaluator                                         *)
(*   main.rs         the diagnostic sink (ErrorReporter) and the driver    *)
(*                                                                         *)
(* Frames and reference values live in two heaps (sequences); an           *)
(* Rc<RefCell<..>> of the source is an index into the heap, so that        *)
(* cloning an Rc copies the index and every holder sees a mutation.        *)
(***************************************************************************)
EXTENDS Integers, Sequences, FiniteSets, TLC

VARIABLES
    prog,               \* the batch of top-level statements given to interpret
    phase,              \* "resolve", "run", "done", "panicked"; "env" in EnvSpec
    idx,                \* interpret's loop index into prog
    locals,             \* Interpreter.locals: node identity -> hop distance
    frames,             \* heap of Environment frames
    refs,               \* heap of LoxRef objects (functions, classes, instances)
    env,                \* Interpreter.env: the current frame
    out,                \* what print has written
    errors_collected,   \* ErrorReporter.errors_collected
    had_error,          \* ErrorReporter.had_error
    had_runtime_error,  \* ErrorReporter.had_runtime_error
    hist,               \* history of the evaluation (observations only)
    op,                 \* the last Environment operation applied (EnvSpec)
    nops,               \* number of Environment operations applied (EnvSpec)
    scanner,            \* the Scanner at work on a source text (ScanSpec)
    parser              \* the Parser at work on the tokens (FrontSpec)

vars == <<prog, phase, idx, locals, frames, refs, env, out, errors_collected,
          had_error, had_runtime_error, hist, op, nops, scanner, parser>>

(***************************************************************************)
(* Bounds                                                                  *)
(***************************************************************************)
MaxFrames == 3
MaxOps == 2

(***************************************************************************)
(* Run-time values (loxvalue.rs, LoxValue)                                 *)
(***************************************************************************)
Nil == [k |-> "nil"]
Boolean(b) == [k |-> "bool", b |-> b]
String(s) == [k |-> "str", s |-> s]
Ref(r) == [k |-> "ref", r |-> r]

RECURSIVE Gcd(_, _)
Gcd(a, b) == IF b = 0 THEN a ELSE Gcd(b, a % b)

Abs(n) == IF n < 0 THEN 0 - n ELSE n

\* An f64 that is a ratio of two small integers, kept in lowest terms.
Ratio(n, d) ==
    LET g == Gcd(Abs(n), Abs(d))
        s == IF d < 0 THEN 0 - 1 ELSE 1
    IN [k |-> "num", n |-> (s * n) \div g, d |-> (s * d) \div g]

Number(n) == Ratio(n, 1)

(***************************************************************************)
(* Results: Result<T, RuntimeError>, and a panic of the process            *)
(***************************************************************************)
Ok(v) == [k |-> "ok", v |-> v, e |-> "none"]
Err(e) == [k |-> "err", v |-> Nil, e |-> e]
ErrReturn(v) == [k |-> "err", v |-> v, e |-> "Return"]
Panic == [k |-> "panic", v |-> Nil, e |-> "panic"]

(***************************************************************************)
(* Environment (env.rs)                                                    *)
(***************************************************************************)
NoFrame == 0

Environment_new(enclosing) == [enclosing |-> enclosing, values |-> <<>>]

define(fs, f, name, value) ==
    [fs EXCEPT ![f].values = (name :> value) @@ @]

RECURSIVE get(_, _, _)
get(fs, f, name) ==
    IF name \in DOMAIN fs[f].values THEN Ok(fs[f].values[name])
    ELSE IF fs[f].enclosing # NoFrame THEN get(fs, fs[f].enclosing, name)
    ELSE Err("UndefinedVar")

RECURSIVE get_at(_, _, _, _)
get_at(fs, f, distance, name) ==
    IF distance = 0 THEN get(fs, f, name)
    ELSE IF fs[f].enclosing # NoFrame
         THEN get_at(fs, fs[f].enclosing, distance - 1, name)
    ELSE Panic

\* assign and assign_at return the heap together with the result.

\* (a faulty assign: it binds the name in the current frame when that frame lacks it)
assign_creating(fs, f, name, value) ==
    [fs |-> define(fs, f, name, value), r |-> Ok(Nil)]

RECURSIVE assign(_, _, _, _)
assign(fs, f, name, value) ==
    IF name \in DOMAIN fs[f].values
    THEN [fs |-> define(fs, f, name, value), r |-> Ok(Nil)]
    ELSE IF fs[f].enclosing # NoFrame
         THEN assign(fs, fs[f].enclosing, name, value)
    ELSE [fs |-> fs, r |-> Err("UndefinedVar")]

RECURSIVE assign_at(_, _, _, _, _)
assign_at(fs, f, distance, name, value) ==
    IF distance = 0 THEN assign(fs, f, name, value)
    ELSE IF fs[f].enclosing # NoFrame
         THEN assign_at(fs, fs[f].enclosing, distance - 1, name, value)
    ELSE [fs |-> fs, r |-> Panic]

(***************************************************************************)
(* Reading the frame heap (used to state properties)                       *)
(***************************************************************************)
\* The frame reached from f by following exactly k enclosing links,
\* NoFrame when the chain is shorter.
RECURSIVE Ancestor(_, _, _)
Ancestor(fs, f, k) ==
    IF f = NoFrame THEN NoFrame
    ELSE IF k = 0 THEN f
    ELSE Ancestor(fs, fs[f].enclosing, k - 1)

Defines(fs, f, name) == f # NoFrame /\ name \in DOMAIN fs[f].values

\* The hop counts at which the chain of f defines name.
DefiningHops(fs, f, name) ==
    {k \in 0..Len(fs) : Defines(fs, Ancestor(fs, f, k), name)}

Min(S) == CHOOSE m \in S : \A n \in S : m <= n

\* The nearest frame of the chain of f that defines name, NoFrame if none.
NearestDefining(fs, f, name) ==
    IF DefiningHops(fs, f, name) = {} THEN NoFrame
    ELSE Ancestor(fs, f, Min(DefiningHops(fs, f, name)))

(***************************************************************************)
(* The diagnostic sink (main.rs, mod errors, ErrorReporter)                *)
(***************************************************************************)
NewSink == [errors_collected |-> <<>>, had_error |-> FALSE, had_runtime_error |-> FALSE]

\* ErrorReporter::runtime_error
runtime_error(sink, line, msg) ==
    [sink EXCEPT !.had_runtime_error = TRUE,
                 !.errors_collected = Append(@, [via |-> "runtime_error", line |-> line, msg |-> msg])]

\* ErrorReporter::report
report(sink, line, location, msg) ==
    [sink EXCEPT !.had_error = TRUE,
                 !.errors_collected = Append(@, [via |-> "report", line |-> line, location |-> location,
                                                 msg |-> msg])]

(***************************************************************************)
(* The syntax tree (ast.rs).  A Variable, Assign or This node carries the  *)
(* identity `id` that stands for its address, the key of                   *)
(* Interpreter.locals.                                                     *)
(***************************************************************************)
Literal(v) == [t |-> "Literal", v |-> v]
Variable(id, name) == [t |-> "Variable", id |-> id, name |-> name]
AssignExpr(id, name, value) == [t |-> "Assign", id |-> id, name |-> name, value |-> value]
BinaryExpr(left, operator, right) == [t |-> "Binary", left |-> left, operator |-> operator, right |-> right]
CallExpr(callee, arguments) == [t |-> "Call", callee |-> callee, arguments |-> arguments]
GetExpr(object, name) == [t |-> "Get", object |-> object, name |-> name]
Grouping(e) == [t |-> "Grouping", e |-> e]
LogicalExpr(left, operator, right) == [t |-> "Logical", left |-> left, operator |-> operator, right |-> right]
SetExpr(object, name, value) == [t |-> "Set", object |-> object, name |-> name, value |-> value]
This(id) == [t |-> "This", id |-> id, name |-> "this"]
UnaryExpr(operator, right) == [t |-> "Unary", operator |-> operator, right |-> right]

NoStmt == [t |-> "None"]
BlockStmt(stmts) == [t |-> "Block", stmts |-> stmts]
BreakStmt == [t |-> "Break"]
FunctionStmt(name, params, body) == [t |-> "Function", name |-> name, params |-> params, body |-> body]
ClassStmt(name, superclass, methods) == [t |-> "Class", name |-> name, superclass |-> superclass, methods |-> methods]
ExpressionStmt(e) == [t |-> "Expression", e |-> e]
IfStmt(condition, then_branch, else_branch) ==
    [t |-> "If", condition |-> condition, then_branch |-> then_branch, else_branch |-> else_branch]
PrintStmt(e) == [t |-> "Print", e |-> e]
ReturnStmt(value) == [t |-> "Return", value |-> value]
WhileStmt(condition, body) == [t |-> "While", condition |-> condition, body |-> body]
VarStmt(name, initializer) == [t |-> "Var", name |-> name, initializer |-> initializer]

(***************************************************************************)
(* Resolver (resolver.rs).  rs is the Resolver: scopes_stack,              *)
(* current_function, current_class, the locals it writes into the          *)
(* interpreter, and the sink.                                              *)
(***************************************************************************)
NewResolver(sink) ==
    [scopes_stack |-> <<>>, current_function |-> "None", current_class |-> "None",
     locals |-> <<>>, sink |-> sink]

begin_scope(rs) == [rs EXCEPT !.scopes_stack = Append(@, <<>>)]

end_scope(rs) == [rs EXCEPT !.scopes_stack = SubSeq(@, 1, Len(@) - 1)]

ScopeInsert(rs, name, ready) ==
    [rs EXCEPT !.scopes_stack[Len(rs.scopes_stack)] = (name :> ready) @@ @]

declare_ready(rs, name) ==
    IF rs.scopes_stack = <<>> THEN rs
    ELSE LET top == rs.scopes_stack[Len(rs.scopes_stack)]
             r1 == IF name \in DOMAIN top
                   THEN [rs EXCEPT !.sink = runtime_error(@, 0, "Already a varibale with this name in this scope: '"
                                                                      \o name \o "'")]
                   ELSE rs
         IN ScopeInsert(r1, name, TRUE)

declare(rs, name) ==
    IF rs.scopes_stack = <<>> THEN rs
    ELSE LET top == rs.scopes_stack[Len(rs.scopes_stack)]
             r1 == IF name \in DOMAIN top
                   THEN [rs EXCEPT !.sink = runtime_error(@, 0, "Already a varibale with this name in this scope: '"
                                                                      \o name \o "'")]
                   ELSE rs
         IN ScopeInsert(r1, name, FALSE)

Resolver_define(rs, name) ==
    IF rs.scopes_stack = <<>> THEN rs ELSE ScopeInsert(rs, name, TRUE)

\* Interpreter::resolve
Interpreter_resolve(rs, id, distance) ==
    [rs EXCEPT !.locals = (id :> distance) @@ @]

\* The scopes from the innermost outward that hold the name, as distances.
ScopeDistances(rs, name) ==
    {i \in 0..(Len(rs.scopes_stack) - 1) :
        name \in DOMAIN rs.scopes_stack[Len(rs.scopes_stack) - i]}

resolve_local(rs, id, name) ==
    IF ScopeDistances(rs, name) = {} THEN rs
    ELSE Interpreter_resolve(rs, id, Min(ScopeDistances(rs, name)))

\* Then(v, F) is F(v), where v is evaluated before F is entered: the
\* statements of the code run one after the other.
Then(v, F(_)) == CHOOSE y \in {F(x) : x \in {v}} : TRUE

RECURSIVE resolve_stmt(_, _), resolve_stmts_inner(_, _, _), resolve_expr_inner(_, _)
RECURSIVE resolve_exprs(_, _, _), resolve_function(_, _, _), resolve_methods(_, _, _)

DeclareParams(rs, params) ==
    LET F[i \in 0..Len(params)] ==
            IF i = 0 THEN rs ELSE Resolver_define(declare(F[i - 1], params[i]), params[i])
    IN F[Len(params)]

resolve_function(rs, stmt, ftype) ==
    LET enclosing_function == rs.current_function
        r1 == begin_scope([rs EXCEPT !.current_function = ftype])
    IN Then(DeclareParams(r1, stmt.params), LAMBDA r2 :
       Then(resolve_stmts_inner(r2, stmt.body, 1), LAMBDA r3 :
       [end_scope(r3) EXCEPT !.current_function = enclosing_function]))

resolve_stmts_inner(rs, stmts, i) ==
    IF i > Len(stmts) THEN rs
    ELSE Then(resolve_stmt(rs, stmts[i]), LAMBDA r : resolve_stmts_inner(r, stmts, i + 1))

resolve_exprs(rs, exprs, i) ==
    IF i > Len(exprs) THEN rs
    ELSE Then(resolve_expr_inner(rs, exprs[i]), LAMBDA r : resolve_exprs(r, exprs, i + 1))

resolve_methods(rs, methods, i) ==
    IF i > Len(methods) THEN rs
    ELSE LET ftype == IF methods[i].name = "init" THEN "Initializer" ELSE "Method"
         IN Then(resolve_function(rs, methods[i], ftype),
                 LAMBDA r : resolve_methods(r, methods, i + 1))

IsNilLiteral(e) == e.t = "Literal" /\ e.v = Nil

resolve_stmt(rs, stmt) ==
    CASE stmt.t = "Block" ->
            Then(resolve_stmts_inner(begin_scope(rs), stmt.stmts, 1), LAMBDA r : end_scope(r))
      [] stmt.t = "Class" ->
            LET enclosing_class == rs.current_class
                r1 == Resolver_define(declare([rs EXCEPT !.current_class = "Class"], stmt.name),
                                      stmt.name)
                r2 == IF stmt.superclass = NoStmt THEN r1
                      ELSE LET r2a == IF stmt.name = stmt.superclass.name
                                      THEN [r1 EXCEPT !.sink =
                                                runtime_error(@, 0, "A class can't inherit from itself")]
                                      ELSE r1
                           IN resolve_expr_inner(r2a, stmt.superclass)
                r3 == ScopeInsert(begin_scope(r2), "this", TRUE)
            IN Then(resolve_methods(r3, stmt.methods, 1), LAMBDA r4 :
               [end_scope(r4) EXCEPT !.current_class = enclosing_class])
      [] stmt.t = "Function" ->
            Then(Resolver_define(declare(rs, stmt.name), stmt.name), LAMBDA r :
                 resolve_function(r, stmt, "Function"))
      [] stmt.t = "Var" ->
            LET r1 == declare(rs, stmt.name)
            IN Then(IF IsNilLiteral(stmt.initializer) THEN r1
                    ELSE resolve_expr_inner(r1, stmt.initializer),
                    LAMBDA r2 : Resolver_define(r2, stmt.name))
      [] stmt.t = "If" ->
            Then(resolve_expr_inner(rs, stmt.condition), LAMBDA r0 :
            Then(resolve_stmt(r0, stmt.then_branch), LAMBDA r1 :
            IF stmt.else_branch = NoStmt THEN r1 ELSE resolve_stmt(r1, stmt.else_branch)))
      [] stmt.t = "Print" -> resolve_expr_inner(rs, stmt.e)
      [] stmt.t = "Return" ->
            LET r1 == IF rs.current_function = "None"
                      THEN [rs EXCEPT !.sink = runtime_error(@, 0, "Can't return from top-level code")]
                      ELSE rs
            IN IF IsNilLiteral(stmt.value) THEN r1
               ELSE LET r2 == IF r1.current_function = "Initializer"
                              THEN [r1 EXCEPT !.sink =
                                        runtime_error(@, 0, "Can't return from an initializer")]
                              ELSE r1
                    IN resolve_expr_inner(r2, stmt.value)
      [] stmt.t = "While" ->
            Then(resolve_expr_inner(rs, stmt.condition), LAMBDA r : resolve_stmt(r, stmt.body))
      [] stmt.t = "Break" -> rs
      [] stmt.t = "Expression" -> resolve_expr_inner(rs, stmt.e)

resolve_expr_inner(rs, expr) ==
    CASE expr.t = "Assign" ->
            Then(resolve_expr_inner(rs, expr.value), LAMBDA r :
                 resolve_local(r, expr.id, expr.name))
      [] expr.t = "Variable" ->
            LET top == IF rs.scopes_stack = <<>> THEN <<>>
                       ELSE rs.scopes_stack[Len(rs.scopes_stack)]
                r1 == IF expr.name \in DOMAIN top /\ top[expr.name] = FALSE
                      THEN [rs EXCEPT !.sink = runtime_error(@, 0, "Variable is undefined")]
                      ELSE rs
            IN resolve_local(r1, expr.id, expr.name)
      [] expr.t = "Binary" ->
            Then(resolve_expr_inner(rs, expr.left), LAMBDA r : resolve_expr_inner(r, expr.right))
      [] expr.t = "Call" ->
            Then(resolve_expr_inner(rs, expr.callee), LAMBDA r :
                 resolve_exprs(r, expr.arguments, 1))
      [] expr.t = "Get" -> resolve_expr_inner(rs, expr.object)
      [] expr.t = "Grouping" -> resolve_expr_inner(rs, expr.e)
      [] expr.t = "Literal" -> rs
      [] expr.t = "Logical" ->
            Then(resolve_expr_inner(rs, expr.left), LAMBDA r : resolve_expr_inner(r, expr.right))
      [] expr.t = "Set" ->
            Then(resolve_expr_inner(rs, expr.value), LAMBDA r : resolve_expr_inner(r, expr.object))
      [] expr.t = "This" ->
            LET r1 == IF rs.current_class = "None"
                      THEN [rs EXCEPT !.sink =
                                runtime_error(@, 0, "Can't use 'this' outside of a class")]
                      ELSE rs
            IN resolve_local(r1, expr.id, "this")
      [] expr.t = "Unary" -> resolve_expr_inner(rs, expr.right)

\* Resolver::resolve_stmts
resolve_stmts(sink, stmts) == resolve_stmts_inner(NewResolver(sink), stmts, 1)

(***************************************************************************)
(* Reference objects (loxvalue.rs, LoxRef) and the interpreter state       *)
(*                                                                         *)
(* st is the Interpreter together with everything it can reach:            *)
(*   frames, refs   the two heaps          env    Interpreter.env          *)
(*   out            standard output        sink   the ErrorReporter        *)
(*   mut, shared    the RefCell borrow flags of the objects in refs        *)
(*   hist           observations of the evaluation, never read by it       *)
(***************************************************************************)
Globals == 1

NativeFn(arity) == [t |-> "Native", arity |-> arity]
UserFunction(code, closure) == [t |-> "Function", code |-> code, closure |-> closure]
LoxClass(name, methods) == [t |-> "Class", name |-> name, methods |-> methods]
LoxInstance(class) == [t |-> "Instance", class |-> class, fields |-> <<>>]

IsFunction(o) == o.t \in {"Native", "Function"}

R(st, r) == [st |-> st, r |-> r]

NewHist ==
    [hopMiss |-> {}, raised |-> <<>>, errPending |-> FALSE, stepAfterErr |-> FALSE,
     callAfterArgErr |-> FALSE, retPending |-> FALSE, retValue |-> Nil,
     stepAfterReturn |-> FALSE, calls |-> <<>>, breakEscaped |-> FALSE,
     invStack |-> <<>>, invFrame |-> <<>>, born |-> <<>>, declEnv |-> <<>>, fuelOut |-> FALSE,
     executed |-> <<>>, resolverReports |-> 0, steps |-> 0, invoked |-> <<>>,
     began |-> <<>>, lookups |-> <<>>, declared |-> <<>>,
     binary |-> <<>>, logical |-> <<>>, blocks |-> {}]

\* A new object in refs; the result is the heap and the index of the object.
\* hist.born remembers the invocation (0: none) during which it was created.
AllocRef(st, o, born) ==
    [st EXCEPT !.refs = Append(@, o), !.hist.born = Append(@, born)]

AllocFrame(st, enclosing) ==
    [st EXCEPT !.frames = Append(@, Environment_new(enclosing))]

CurrentInvocation(st) ==
    IF st.hist.invStack = <<>> THEN 0 ELSE st.hist.invStack[Len(st.hist.invStack)]

\* Interpreter::new: the global frame with the native function clock
NewInterpreter(sink) ==
    LET s0 == [frames |-> <<Environment_new(NoFrame)>>, refs |-> <<>>, env |-> Globals,
               out |-> <<>>, sink |-> sink, mut |-> {}, shared |-> <<>>, hist |-> NewHist]
        s1 == AllocRef(s0, NativeFn(0), 0)
    IN [s1 EXCEPT !.frames = define(@, Globals, "clock", Ref(Len(s1.refs)))]

\* thiserror's Display of RuntimeError (interpreter.rs:14-50)
ErrorMessage(e) ==
    CASE e = "Breaking" -> "Breaking out of a loop"
      [] e = "Return" -> "Returning from function"
      [] e = "CallOnNonCallable" -> "Can only call functions and classes"
      [] e = "CallWrongNumberOfArgs" -> "Wrong number of function arguments"
      [] e = "FieldAccessOnNonInstance" -> "Only instances have fields"
      [] e = "OperandsMustBeNumbers" -> "Operands must be numbers"
      [] e = "PlusOperandsWrong" -> "Operands for '+' must be numbers, or first operand must be a string"
      [] e = "UndefinedProperty" -> "Undefined property"
      [] e = "UnsupportedOperation" -> "Unsupported operation"
      [] e = "DivideByZero" -> "Attempted to divide by zero"
      [] e = "UndefinedVar" -> "Undefined variable"

ControlSignals == {"Breaking", "Return"}

\* Observation: a genuine run-time error comes into being.
Raise(st, e) ==
    [st EXCEPT !.hist.raised = Append(@, e), !.hist.errPending = TRUE]

\* Observation: the evaluator takes a step (enters a statement or an expression).
Step(st) ==
    [st EXCEPT !.hist.stepAfterErr = @ \/ st.hist.errPending,
               !.hist.stepAfterReturn = @ \/ st.hist.retPending,
               !.hist.steps = @ + 1]

\* Interpreter::error
error(st, line, e) ==
    R([st EXCEPT !.sink = runtime_error(@, line, ErrorMessage(e))], Err(e))

\* is_truthy
\* (a faulty variant takes zero and the empty string for false as well)
is_truthy_of_c(val) ==
    IF val = Nil THEN FALSE
    ELSE IF val.k = "bool" /\ val.b = FALSE THEN FALSE
    ELSE IF val.k = "num" /\ val.n = 0 THEN FALSE
    ELSE IF val.k = "str" /\ val.s = "" THEN FALSE
    ELSE TRUE

is_truthy(val) ==
    IF val = Nil THEN FALSE
    ELSE IF val.k = "bool" /\ val.b = FALSE THEN FALSE
    ELSE TRUE

(***************************************************************************)
(* Display of a value (loxvalue.rs:21-57); a Ref is borrowed to print it   *)
(***************************************************************************)
RECURSIVE Digits(_, _, _)
Digits(rem, d, n) ==
    IF rem = 0 \/ n = 0 THEN ""
    ELSE ToString((rem * 10) \div d) \o Digits((rem * 10) % d, d, n - 1)

FloatDigits == 16

NumberToString(v) ==
    LET a == Abs(v.n)
        sign == IF v.n < 0 THEN "-" ELSE ""
    IN IF v.d = 1 THEN sign \o ToString(a)
       ELSE sign \o ToString(a \div v.d) \o "." \o Digits(a % v.d, v.d, FloatDigits)

Display(st, val) ==
    CASE val.k = "nil" -> [k |-> "ok", s |-> "Nil"]
      [] val.k = "bool" -> [k |-> "ok", s |-> IF val.b THEN "true" ELSE "false"]
      [] val.k = "num" -> [k |-> "ok", s |-> NumberToString(val)]
      [] val.k = "str" -> [k |-> "ok", s |-> val.s]
      [] val.k = "ref" ->
            IF val.r \in st.mut THEN [k |-> "panic", s |-> ""]
            ELSE LET o == st.refs[val.r]
                 IN CASE IsFunction(o) -> [k |-> "ok", s |-> "(function)"]
                      [] o.t = "Class" -> [k |-> "ok", s |-> o.name]
                      [] o.t = "Instance" ->
                            [k |-> "ok", s |-> st.refs[o.class].name \o " instance"]

(***************************************************************************)
(* Equality of values: the derived PartialEq of LoxValue and LoxRef, the   *)
(* hand-written one of Function (loxvalue.rs:12, 39, 190-201, 256).        *)
(* Rc<RefCell<LoxRef>> compares the objects behind the two references,     *)
(* borrowing both.  The answer is "t", "f", or "p" for a panic.            *)
(***************************************************************************)
EqDepth == 3

RECURSIVE ValueEq(_, _, _, _), RefEq(_, _, _, _), MapEq(_, _, _, _, _)

And3(a, b) == IF a = "p" THEN "p" ELSE IF a = "f" THEN "f" ELSE b

MapEq(st, m1, m2, keys, fuel) ==
    IF keys = {} THEN "t"
    ELSE LET key == CHOOSE x \in keys : TRUE
         IN And3(ValueEq(st, m1[key], m2[key], fuel), MapEq(st, m1, m2, keys \ {key}, fuel))

RefEq(st, r1, r2, fuel) ==
    IF r1 \in st.mut \/ r2 \in st.mut \/ fuel = 0 THEN "p"
    ELSE LET o1 == st.refs[r1]
             o2 == st.refs[r2]
         IN CASE IsFunction(o1) /\ IsFunction(o2) -> "f"
              [] o1.t = "Class" /\ o2.t = "Class" ->
                    IF o1.name # o2.name \/ DOMAIN o1.methods # DOMAIN o2.methods THEN "f"
                    ELSE MapEq(st, o1.methods, o2.methods, DOMAIN o1.methods, fuel - 1)
              [] o1.t = "Instance" /\ o2.t = "Instance" ->
                    And3(RefEq(st, o1.class, o2.class, fuel - 1),
                         IF DOMAIN o1.fields # DOMAIN o2.fields THEN "f"
                         ELSE MapEq(st, o1.fields, o2.fields, DOMAIN o1.fields, fuel - 1))
              [] OTHER -> "f"

ValueEq(st, a, b, fuel) ==
    IF a.k # b.k THEN "f"
    ELSE IF a.k = "ref" THEN RefEq(st, a.r, b.r, fuel)
    ELSE IF a = b THEN "t" ELSE "f"

(***************************************************************************)
(* Interpreter (interpreter.rs) and the callables (loxvalue.rs)            *)
(***************************************************************************)
MaxIter == 4

Lt(a, b) == a.n * b.d < b.n * a.d

\* Interpreter::evaluate_unary
evaluate_unary(st, operator, right) ==
    IF operator = "-" /\ right.k = "num" THEN R(st, Ok(Ratio(0 - right.n, right.d)))
    ELSE IF operator = "!" THEN R(st, Ok(Boolean(~is_truthy(right))))
    ELSE error(Raise(st, "UnsupportedOperation"), 0, "UnsupportedOperation")

\* Interpreter::evaluate_binary
\* Interpreter::evaluate_binary, the arms of the match for `+`
\* (a faulty variant stringifies the left operand of a string as well)
evaluate_plus_either_side(st, left, right) ==
    CASE left.k = "num" /\ right.k = "num" ->
            R(st, Ok(Ratio(left.n * right.d + right.n * left.d, left.d * right.d)))
      [] left.k = "str" /\ right.k = "str" -> R(st, Ok(String(left.s \o right.s)))
      [] left.k = "str" /\ right.k # "str" ->
            LET d == Display(st, right)
            IN IF d.k = "panic" THEN R(st, Panic) ELSE R(st, Ok(String(left.s \o d.s)))
      [] left.k # "str" /\ right.k = "str" ->
            LET d == Display(st, left)
            IN IF d.k = "panic" THEN R(st, Panic) ELSE R(st, Ok(String(d.s \o right.s)))
      [] OTHER -> error(Raise(st, "PlusOperandsWrong"), 0, "PlusOperandsWrong")

evaluate_plus(st, left, right) ==
    CASE left.k = "num" /\ right.k = "num" ->
            R(st, Ok(Ratio(left.n * right.d + right.n * left.d, left.d * right.d)))
      [] left.k = "str" /\ right.k = "str" -> R(st, Ok(String(left.s \o right.s)))
      [] left.k = "str" /\ right.k # "str" ->
            LET d == Display(st, right)
            IN IF d.k = "panic" THEN R(st, Panic) ELSE R(st, Ok(String(left.s \o d.s)))
      [] OTHER -> error(Raise(st, "PlusOperandsWrong"), 0, "PlusOperandsWrong")

\* Interpreter::evaluate_binary, the arm of the match for `/` on two numbers
\* (a faulty variant does not look at the divisor first: a division by zero
\* gives a value, here the dividend)
evaluate_slash_unchecked(st, left, right) ==
    IF right.n = 0 THEN R(st, Ok(left))
    ELSE R(st, Ok(Ratio(left.n * right.d, left.d * right.n)))

evaluate_slash(st, left, right) ==
    IF right.n = 0 THEN error(Raise(st, "DivideByZero"), 0, "DivideByZero")
    ELSE R(st, Ok(Ratio(left.n * right.d, left.d * right.n)))

evaluate_binary(st, operator, left, right) ==
    LET nums == left.k = "num" /\ right.k = "num"
        fail(e) == error(Raise(st, e), 0, e)
    IN CASE operator = "-" /\ nums ->
                R(st, Ok(Ratio(left.n * right.d - right.n * left.d, left.d * right.d)))
         [] operator = "/" /\ nums -> evaluate_slash(st, left, right)
         [] operator = "*" /\ nums -> R(st, Ok(Ratio(left.n * right.n, left.d * right.d)))
         [] operator = "+" -> evaluate_plus(st, left, right)
         [] operator = ">" /\ nums -> R(st, Ok(Boolean(Lt(right, left))))
         [] operator = ">=" /\ nums -> R(st, Ok(Boolean(~Lt(left, right))))
         [] operator = "<" /\ nums -> R(st, Ok(Boolean(Lt(left, right))))
         [] operator = "<=" /\ nums -> R(st, Ok(Boolean(~Lt(right, left))))
         [] operator = "!=" ->
                LET q == ValueEq(st, left, right, EqDepth)
                IN IF q = "p" THEN R(st, Panic) ELSE R(st, Ok(Boolean(q = "f")))
         [] operator = "==" ->
                LET q == ValueEq(st, left, right, EqDepth)
                IN IF q = "p" THEN R(st, Panic) ELSE R(st, Ok(Boolean(q = "t")))
         [] operator \in {"-", "/", "*"} /\ ~nums -> fail("OperandsMustBeNumbers")
         [] operator \in {">", ">=", "<", "<="} /\ ~nums -> fail("OperandsMustBeNumbers")
         [] OTHER -> fail("UnsupportedOperation")

\* Observation for a node the Resolver annotated: does the frame reached by
\* exactly `distance` links from the current frame hold the name?
ObserveHops(st, id, distance, name) ==
    IF Defines(st.frames, Ancestor(st.frames, st.env, distance), name) THEN st
    ELSE [st EXCEPT !.hist.hopMiss = @ \cup {id}]

\* Interpreter::lookup_variable
lookup_variable(st, name, id) ==
    IF id \in DOMAIN locals
    THEN LET res == get_at(st.frames, st.env, locals[id], name)
             s1 == ObserveHops(st, id, locals[id], name)
         IN R(IF res.k = "err" THEN Raise(s1, res.e) ELSE s1, res)
    ELSE LET res == get(st.frames, Globals, name)
         IN R(IF res.k = "err" THEN Raise(st, res.e) ELSE st, res)

\* UserFunction::bind: the same code, closed over one more frame that defines this
bind(st, f, this_ref) ==
    LET s1 == AllocFrame(st, st.refs[f].closure)
        fr == Len(s1.frames)
        s2 == [s1 EXCEPT !.frames = define(@, fr, "this", Ref(this_ref))]
    IN AllocRef(s2, UserFunction(st.refs[f].code, fr), st.hist.born[f])

\* LoxClass::find_method
find_method(class, name) ==
    IF name \in DOMAIN class.methods THEN class.methods[name] ELSE Nil

\* LoxInstance::get, called with the reference to the instance itself
LoxInstance_get(st, self_ref, name) ==
    LET i == st.refs[self_ref]
        m == find_method(st.refs[i.class], name)
    IN IF name \in DOMAIN i.fields THEN R(st, Ok(i.fields[name]))
       ELSE IF m.k = "ref" /\ IsFunction(st.refs[m.r])
       THEN IF st.refs[m.r].t = "Native"
            THEN LET s1 == AllocRef(st, st.refs[m.r], 0) IN R(s1, Ok(Ref(Len(s1.refs))))
            ELSE LET s1 == bind(st, m.r, self_ref) IN R(s1, Ok(Ref(Len(s1.refs))))
       ELSE R(st, Err("LookupError"))

\* LoxInstance::set
LoxInstance_set(st, r, name, value) ==
    [st EXCEPT !.refs[r].fields = (name :> value) @@ @]

\* LoxCallable::arity for Function and for LoxClass
\* (a faulty variant takes every class to declare no arguments)
arity_without_init(st, r) ==
    LET o == st.refs[r]
    IN CASE o.t = "Native" -> o.arity
         [] o.t = "Function" -> Len(o.code.params)
         [] o.t = "Class" -> 0

arity(st, r) ==
    LET o == st.refs[r]
    IN CASE o.t = "Native" -> o.arity
         [] o.t = "Function" -> Len(o.code.params)
         [] o.t = "Class" ->
                LET m == find_method(o, "init")
                IN IF m = Nil THEN 0 ELSE Len(st.refs[m.r].code.params)

DefineParams(fs, f, params, args) ==
    LET F[i \in 0..Len(params)] ==
            IF i = 0 THEN fs ELSE define(F[i - 1], f, params[i], args[i])
    IN F[Len(params)]

\* The value of the native function clock: seconds since the epoch.
ClockSeconds == 1

\* NativeFn::call
NativeFn_call(st, f, args) ==
    IF Len(args) # st.refs[f].arity THEN R(Raise(st, "CallWrongNumberOfArgs"), Err("CallWrongNumberOfArgs"))
    ELSE R(st, Ok(Number(ClockSeconds)))

\* Function::call, the frame of the call: one new child of the closure
CallEnv(st, closure) == [st |-> AllocFrame(st, closure), env |-> Len(st.frames) + 1]

\* Function::call, what the call makes of the outcome of its body
\* (a faulty variant forgets the value the return signal carries)
FunctionCallResult_dropping(r) ==
    IF r.k = "ok" THEN Ok(Nil)
    ELSE IF r.k = "err" /\ r.e = "Return" THEN Ok(Nil)
    ELSE r

FunctionCallResult(r) ==
    IF r.k = "ok" THEN Ok(Nil)
    ELSE IF r.k = "err" /\ r.e = "Return" THEN Ok(r.v)
    ELSE r

\* Stmt::Function, the closure of the new function: the current frame itself
\* (a faulty variant captures a copy of the frame)
CaptureEnv_copy(st) ==
    [st |-> [st EXCEPT !.frames = Append(@, st.frames[st.env])], closure |-> Len(st.frames) + 1]

CaptureEnv(st) == [st |-> st, closure |-> st.env]

\* Stmt::While, an Err from the body: a break ends the loop, the rest goes on up
\* (a faulty variant reports whatever passes through the loop)
WhileBodyErr_reporting(st, r) ==
    IF r.e = "Breaking" THEN R(st, Ok(Nil)) ELSE R(error(st, 0, r.e).st, r)

WhileBodyErr(st, r) ==
    IF r.e = "Breaking" THEN R(st, Ok(Nil)) ELSE R(st, r)

\* Expr::Call, the value of an argument: unwrap_or(LoxValue::Nil)
ArgValue(r) == IF r.k = "ok" THEN r.v ELSE Nil

Range(q) == {q[i] : i \in 1..Len(q)}

Pop(q) == SubSeq(q, 1, Len(q) - 1)

\* Observations at the end of a user function call.
ObserveCallEnd(st, bodyr, result) ==
    [st EXCEPT
        !.hist.calls = Append(@, [body |-> bodyr, sent |-> st.hist.retValue, got |-> result]),
        !.hist.retPending = @ /\ (result.k = "err" /\ result.e = "Return"),
        !.hist.breakEscaped = @ \/ (result.k = "err" /\ result.e = "Breaking"),
        !.hist.invStack = Pop(@)]

RECURSIVE evaluate_expr(_, _), evaluate_stmt(_, _), execute_block(_, _, _)
RECURSIVE ExecStmts(_, _, _, _), EvalArgs(_, _, _, _, _), WhileLoop(_, _, _, _)
RECURSIVE evaluate_call(_, _, _, _), Function_call(_, _, _), LoxClass_call(_, _, _)
RECURSIVE evaluate_logical(_, _, _, _), ClassMethods(_, _, _, _)

\* Observation: the body of a user function begins. hist.began remembers the
\* declaration, the arguments, and the receiver its closure binds (Nil: none).
Began(st, f, args) ==
    [code |-> st.refs[f].code, args |-> args,
     this |-> IF "this" \in DOMAIN st.frames[st.refs[f].closure].values
              THEN st.frames[st.refs[f].closure].values["this"] ELSE Nil,
     steps |-> st.hist.steps]

\* Function::call, the match on what execute_block gave
CallOutcome(b) ==
    IF b.r.k = "panic" THEN b
    ELSE R(ObserveCallEnd(b.st, b.r, FunctionCallResult(b.r)), FunctionCallResult(b.r))

\* Function::call
Function_call(st, f, args) ==
    CASE st.refs[f].t = "Native" -> NativeFn_call(st, f, args)
      [] st.refs[f].t = "Function" /\ Len(args) # Len(st.refs[f].code.params) ->
            R(Raise(CallEnv(st, st.refs[f].closure).st, "CallWrongNumberOfArgs"),
              Err("CallWrongNumberOfArgs"))
      [] OTHER ->
            LET code == st.refs[f].code
                ce == CallEnv(st, st.refs[f].closure)
                s1 == [ce.st EXCEPT
                          !.frames = DefineParams(@, ce.env, code.params, args),
                          !.hist.invFrame = Append(@, ce.env),
                          !.hist.began = Append(@, Began(st, f, args)),
                          !.hist.invStack = Append(@, Len(ce.st.hist.invFrame) + 1)]
            IN CallOutcome(execute_block(s1, code.body, ce.env))

\* LoxClass::call, after the initializer: `?` on its result, then the instance
\* (a faulty variant hands on what the initializer returned)
InitOutcome_returning(c, instance_ref) == c

InitOutcome(c, instance_ref) ==
    IF c.r.k # "ok" THEN c ELSE R(c.st, Ok(Ref(instance_ref)))

\* LoxClass::call
LoxClass_call(st, this, args) ==
    IF this = 0 \/ st.refs[this].t # "Class" THEN R(st, Panic)
    ELSE LET s1 == AllocRef(st, LoxInstance(this), CurrentInvocation(st))
             instance_ref == Len(s1.refs)
             m == find_method(st.refs[this], "init")
         IN IF m = Nil THEN R(s1, Ok(Ref(instance_ref)))
            ELSE IF m.k # "ref" \/ ~IsFunction(s1.refs[m.r]) THEN R(s1, Panic)
            ELSE LET s2 == IF s1.refs[m.r].t = "Native" THEN AllocRef(s1, s1.refs[m.r], 0)
                           ELSE bind(s1, m.r, instance_ref)
                 IN InitOutcome(Function_call(s2, Len(s2.refs), args), instance_ref)

\* Interpreter::evaluate_call
evaluate_call(st, this, args, callable) ==
    CASE Len(args) # arity(st, callable) ->
            LET msg == "Expected " \o ToString(arity(st, callable)) \o
                       " arguments but got " \o ToString(Len(args))
            IN R([Raise(st, "CallWrongNumberOfArgs") EXCEPT !.sink = runtime_error(@, 0, msg)],
                 Err("CallWrongNumberOfArgs"))
      [] Len(args) = arity(st, callable) /\ st.refs[callable].t = "Class" ->
            LoxClass_call(st, this, args)
      [] OTHER -> Function_call(st, callable, args)

\* Expr::Call, the arguments: each is evaluated, an Err becomes Nil
EvalArgs(st, arguments, i, acc, failed) ==
    IF i > Len(arguments) THEN [st |-> st, args |-> acc, failed |-> failed, panic |-> FALSE]
    ELSE LET a == evaluate_expr(st, arguments[i])
         IN IF a.r.k = "panic" THEN [st |-> a.st, args |-> acc, failed |-> failed, panic |-> TRUE]
            ELSE EvalArgs(a.st, arguments, i + 1, Append(acc, ArgValue(a.r)),
                          failed \/ (a.r.k = "err" /\ a.r.e \notin ControlSignals))

\* Observation: a logical operator has been applied. hist.logical remembers
\* the operator, the value of the left operand, the outcome, and the steps the
\* evaluator took after the left operand was known.
ObserveLogical(v, l, operator) ==
    [st |-> [v.st EXCEPT !.hist.logical =
                Append(@, [operator |-> operator, left |-> l.r.v, r |-> v.r,
                           steps |-> v.st.hist.steps - l.st.hist.steps,
                           out |-> SubSeq(v.st.out, Len(l.st.out) + 1, Len(v.st.out))])],
     r |-> v.r]

\* Interpreter::evaluate_logical once the left operand is known
LogicalValue(l, operator, right) ==
    IF l.r.k # "ok" THEN l
    ELSE IF operator = "or" /\ is_truthy(l.r.v) THEN ObserveLogical(l, l, operator)
    ELSE IF operator # "or" /\ ~is_truthy(l.r.v) THEN ObserveLogical(l, l, operator)
    ELSE ObserveLogical(evaluate_expr(l.st, right), l, operator)

\* Interpreter::evaluate_logical
evaluate_logical(st, left, operator, right) ==
    LogicalValue(evaluate_expr(st, left), operator, right)

\* Expr::Call once the callee and the arguments are values
NotCallable(st) ==
    R([Raise(st, "CallOnNonCallable") EXCEPT
          !.sink = runtime_error(@, 0, ErrorMessage("CallOnNonCallable"))],
      Err("CallOnNonCallable"))

\* the receiver evaluate_call is given: the class itself, or none for a function
CallThis(st, r) == IF st.refs[r].t = "Class" THEN r ELSE 0

\* the borrow of the callee ends with the call
EndBorrow(c) == [st |-> [c.st EXCEPT !.shared = Pop(@)], r |-> c.r]

\* Observation: a call of a function or class has ended. hist.invoked remembers
\* the callee, the arguments, the outcome, and what happened in between: the
\* steps the evaluator took, the objects created, the errors raised and reported.
ObserveInvoke(c, st, callable, args) ==
    [st |-> [c.st EXCEPT !.hist.invoked =
                Append(@, [callee |-> callable, args |-> args, r |-> c.r,
                           steps |-> c.st.hist.steps - st.hist.steps,
                           refs0 |-> Len(st.refs), refs1 |-> Len(c.st.refs),
                           raised |-> Len(c.st.hist.raised) - Len(st.hist.raised),
                           reports |-> Len(c.st.sink.errors_collected) -
                                       Len(st.sink.errors_collected),
                           inv0 |-> Len(st.hist.invFrame),
                           calls1 |-> Len(c.st.hist.calls),
                           steps0 |-> st.hist.steps])],
     r |-> c.r]

CallValue(st, callee, args) ==
    CASE callee.k # "ref" -> NotCallable(st)
      [] callee.k = "ref" /\ callee.r \in st.mut -> R(st, Panic)
      [] callee.k = "ref" /\ callee.r \notin st.mut /\ st.refs[callee.r].t = "Instance" ->
            NotCallable(st)
      [] OTHER ->
            ObserveInvoke(
                EndBorrow(evaluate_call([st EXCEPT !.shared = Append(@, callee.r)],
                                        CallThis(st, callee.r), args, callee.r)),
                st, callee.r, args)

\* Observation: a property of an instance has been looked up. hist.lookups
\* remembers the instance, the name, the fields and the method table before and
\* after, and the outcome.
ObserveGet(g, st, inst, name) ==
    [st |-> [g.st EXCEPT !.hist.lookups =
                Append(@, [inst |-> inst, name |-> name, r |-> g.r,
                           fields |-> st.refs[inst].fields,
                           methods |-> st.refs[st.refs[inst].class].methods,
                           fields1 |-> g.st.refs[inst].fields,
                           methods1 |-> g.st.refs[g.st.refs[inst].class].methods])],
     r |-> g.r]

\* Expr::Get, the map_err on what LoxInstance::get gave
GetOutcome(g) ==
    IF g.r.k = "err" THEN error(Raise(g.st, "UndefinedProperty"), 0, "UndefinedProperty")
    ELSE g

\* Expr::Get once the object is known; r.borrow() fails on an instance that a
\* field assignment under way has borrowed mutably
GetValue(o, name) ==
    IF o.r.k # "ok" THEN o
    ELSE IF o.r.v.k = "ref" /\ o.r.v.r \in o.st.mut
    THEN ObserveGet(R(o.st, Panic), o.st, o.r.v.r, name)
    ELSE IF o.r.v.k = "ref" /\ o.st.refs[o.r.v.r].t = "Instance"
    THEN ObserveGet(GetOutcome(LoxInstance_get(o.st, o.r.v.r, name)), o.st, o.r.v.r, name)
    ELSE R(Raise(o.st, "FieldAccessOnNonInstance"), Err("FieldAccessOnNonInstance"))

\* Observation: a binary operator has been applied. hist.binary remembers the
\* operator, the operands, the outcome and the reports it made to the sink.
ObserveBinary(b, st, operator, left, right) ==
    [st |-> [b.st EXCEPT !.hist.binary =
                Append(@, [operator |-> operator, left |-> left, right |-> right, r |-> b.r,
                           reports |-> SubSeq(b.st.sink.errors_collected,
                                              Len(st.sink.errors_collected) + 1,
                                              Len(b.st.sink.errors_collected))])],
     r |-> b.r]

\* Expr::Assign once the value is known
AssignValue(st, id, name, value) ==
    LET s1 == IF id \in DOMAIN locals THEN ObserveHops(st, id, locals[id], name) ELSE st
        a == IF id \in DOMAIN locals
             THEN assign_at(st.frames, st.env, locals[id], name, value)
             ELSE assign(st.frames, Globals, name, value)
    IN IF a.r.k = "panic" THEN R(s1, Panic)
       ELSE IF a.r.k = "err" THEN error(Raise(s1, a.r.e), 0, a.r.e)
       ELSE R([s1 EXCEPT !.frames = a.fs], Ok(value))

\* Expr::This: the receiver is the variable `this` of the method's bound frame
evaluate_this(st, expr) == lookup_variable(st, "this", expr.id)

\* Interpreter::evaluate_expr
evaluate_expr(st0, expr) ==
    LET st == Step(st0)
    IN CASE expr.t = "Binary" ->
                LET l == evaluate_expr(st, expr.left)
                IN IF l.r.k # "ok" THEN l
                   ELSE LET r == evaluate_expr(l.st, expr.right)
                        IN IF r.r.k # "ok" THEN r
                           ELSE ObserveBinary(
                                    evaluate_binary(r.st, expr.operator, l.r.v, r.r.v),
                                    r.st, expr.operator, l.r.v, r.r.v)
         [] expr.t = "Call" ->
                LET c == evaluate_expr(st, expr.callee)
                IN IF c.r.k # "ok" THEN c
                   ELSE LET a == EvalArgs(c.st, expr.arguments, 1, <<>>, FALSE)
                            s1 == [a.st EXCEPT !.hist.callAfterArgErr = @ \/ a.failed]
                        IN IF a.panic THEN R(a.st, Panic)
                           ELSE CallValue(s1, c.r.v, a.args)
         [] expr.t = "Get" -> GetValue(evaluate_expr(st, expr.object), expr.name)
         [] expr.t = "Grouping" -> evaluate_expr(st, expr.e)
         [] expr.t = "Literal" -> R(st, Ok(expr.v))
         [] expr.t = "Logical" -> evaluate_logical(st, expr.left, expr.operator, expr.right)
         [] expr.t = "Set" ->
                LET o == evaluate_expr(st, expr.object)
                IN IF o.r.k # "ok" THEN o
                   ELSE IF o.r.v.k = "ref" /\ (o.r.v.r \in o.st.mut \/ o.r.v.r \in Range(o.st.shared))
                   THEN R(o.st, Panic)
                   ELSE IF o.r.v.k = "ref" /\ o.st.refs[o.r.v.r].t = "Instance"
                   THEN LET i == o.r.v.r
                            v == evaluate_expr([o.st EXCEPT !.mut = @ \cup {i}], expr.value)
                        IN IF v.r.k = "panic" THEN v
                           ELSE IF v.r.k # "ok" THEN R([v.st EXCEPT !.mut = @ \ {i}], v.r)
                           ELSE R([LoxInstance_set(v.st, i, expr.name, v.r.v) EXCEPT !.mut = @ \ {i}],
                                  Ok(v.r.v))
                   ELSE R(Raise(o.st, "FieldAccessOnNonInstance"), Err("FieldAccessOnNonInstance"))
         [] expr.t = "Unary" ->
                LET r == evaluate_expr(st, expr.right)
                IN IF r.r.k # "ok" THEN r ELSE evaluate_unary(r.st, expr.operator, r.r.v)
         [] expr.t = "Variable" -> lookup_variable(st, expr.name, expr.id)
         [] expr.t = "This" -> evaluate_this(st, expr)
         [] expr.t = "Assign" ->
                LET v == evaluate_expr(st, expr.value)
                IN IF v.r.k # "ok" THEN v ELSE AssignValue(v.st, expr.id, expr.name, v.r.v)

\* Stmt::Class, the method table: one function per method, closed over the current frame
ClassMethods(st, methods, i, table) ==
    IF i > Len(methods) THEN [st |-> st, table |-> table]
    ELSE LET s1 == AllocRef(st, UserFunction(methods[i], st.env), CurrentInvocation(st))
         IN ClassMethods(s1, methods, i + 1, (methods[i].name :> Ref(Len(s1.refs))) @@ table)

RECURSIVE WhileTurn(_, _, _, _)

\* Stmt::While
WhileLoop(st, condition, body, fuel) ==
    IF fuel = 0 THEN R([st EXCEPT !.hist.fuelOut = TRUE], Panic)
    ELSE WhileTurn(evaluate_expr(st, condition), condition, body, fuel)

\* Stmt::While, one turn of the loop once the condition c is evaluated
WhileTurn(c, condition, body, fuel) ==
    IF c.r.k # "ok" THEN c
    ELSE IF ~is_truthy(c.r.v) THEN R(c.st, Ok(Nil))
    ELSE LET b == evaluate_stmt(c.st, body)
         IN IF b.r.k = "panic" THEN b
            ELSE IF b.r.k = "err" THEN WhileBodyErr(b.st, b.r)
            ELSE WhileLoop(b.st, condition, body, fuel - 1)

\* Interpreter::execute_block, its loop over the statements from the i-th on;
\* however the loop ends, self.env is set back to previous_env
ExecStmts_leaving(st, stmts, i, previous_env) ==
    IF i > Len(stmts) THEN R([st EXCEPT !.env = previous_env], Ok(Nil))
    ELSE LET r == evaluate_stmt(st, stmts[i])
         IN IF r.r.k # "ok" THEN r
            ELSE ExecStmts(r.st, stmts, i + 1, previous_env)

ExecStmts(st, stmts, i, previous_env) ==
    IF i > Len(stmts) THEN R([st EXCEPT !.env = previous_env], Ok(Nil))
    ELSE LET r == evaluate_stmt(st, stmts[i])
         IN IF r.r.k # "ok" THEN R([r.st EXCEPT !.env = previous_env], r.r)
            ELSE ExecStmts(r.st, stmts, i + 1, previous_env)

\* hist.blocks remembers of each execute_block that has ended the current
\* frame before it, the frame of the block, the current frame after it, and
\* how it ended.
ObserveBlock(c, before, inside) ==
    R([c.st EXCEPT !.hist.blocks =
            @ \cup {[before |-> before, inside |-> inside, after |-> c.st.env,
                     ended |-> IF c.r.k = "err" THEN c.r.e ELSE c.r.k]}],
      c.r)

\* Interpreter::execute_block
execute_block(st, stmts, e) ==
    ObserveBlock(ExecStmts([st EXCEPT !.env = e], stmts, 1, st.env), st.env, e)

RECURSIVE IfBranch(_, _)

\* Stmt::Expression once the expression is evaluated
ExpressionDone(v) == IF v.r.k # "ok" THEN v ELSE R(v.st, Ok(Nil))

\* Stmt::If once the condition is evaluated
IfBranch(c, stmt) ==
    IF c.r.k # "ok" THEN c
    ELSE IF is_truthy(c.r.v) THEN evaluate_stmt(c.st, stmt.then_branch)
    ELSE IF stmt.else_branch # NoStmt THEN evaluate_stmt(c.st, stmt.else_branch)
    ELSE R(c.st, Ok(Nil))

\* Stmt::Print once the expression is evaluated
PrintValue(v) ==
    LET d == Display(v.st, v.r.v)
    IN IF v.r.k # "ok" THEN v
       ELSE IF d.k = "panic" THEN R(v.st, Panic)
       ELSE R([v.st EXCEPT !.out = Append(@, d.s)], Ok(Nil))

\* Stmt::Return once the value is evaluated
ReturnValue(v) ==
    IF v.r.k # "ok" THEN v
    ELSE R([v.st EXCEPT !.hist.retPending = TRUE, !.hist.retValue = v.r.v], ErrReturn(v.r.v))

\* Stmt::Var once the initializer is evaluated
VarDefine(v, name) ==
    IF v.r.k # "ok" THEN v
    ELSE R([v.st EXCEPT !.frames = define(@, v.st.env, name, v.r.v)], Ok(Nil))

\* Observation: a class declaration has made its class object. hist.declared
\* remembers the object and the superclass the declaration names.
ObserveClass(st, stmt) == [class |-> Len(st.refs), superclass |-> stmt.superclass]

\* Interpreter::evaluate_stmt
evaluate_stmt(st0, stmt) ==
    LET st == Step(st0)
    IN CASE stmt.t = "Block" ->
                LET s1 == AllocFrame(st, st.env)
                IN execute_block(s1, stmt.stmts, Len(s1.frames))
         [] stmt.t = "Break" -> R(st, Err("Breaking"))
         [] stmt.t = "Class" ->
                LET s1 == [st EXCEPT !.frames = define(@, st.env, stmt.name, Nil)]
                    m == ClassMethods(s1, stmt.methods, 1, <<>>)
                    s2 == AllocRef(m.st, LoxClass(stmt.name, m.table), CurrentInvocation(st))
                    a == assign(s2.frames, s2.env, stmt.name, Ref(Len(s2.refs)))
                IN R([s2 EXCEPT !.frames = a.fs,
                                !.hist.declared = Append(@, ObserveClass(s2, stmt))], a.r)
         [] stmt.t = "Expression" -> ExpressionDone(evaluate_expr(st, stmt.e))
         [] stmt.t = "Function" ->
                LET c == CaptureEnv(st)
                    s1 == AllocRef(c.st, UserFunction(stmt, c.closure), CurrentInvocation(st))
                IN R([s1 EXCEPT !.frames = define(@, s1.env, stmt.name, Ref(Len(s1.refs))),
                                !.hist.declEnv = (Len(s1.refs) :> st.env) @@ @],
                     Ok(Nil))
         [] stmt.t = "If" -> IfBranch(evaluate_expr(st, stmt.condition), stmt)
         [] stmt.t = "Print" -> PrintValue(evaluate_expr(st, stmt.e))
         [] stmt.t = "Return" -> ReturnValue(evaluate_expr(st, stmt.value))
         [] stmt.t = "While" -> WhileLoop(st, stmt.condition, stmt.body, MaxIter)
         [] stmt.t = "Var" -> VarDefine(evaluate_expr(st, stmt.initializer), stmt.name)

(***************************************************************************)
(* Programs.  Every program is the statements of a prelude followed by a   *)
(* few further top-level statements; each statement is shown with its Lox  *)
(* source.  The id of a node is unique in the whole collection.            *)
(***************************************************************************)
\* Closures over a local of the call that made them.
CounterPrelude ==
    <<
       \* var i1; var g1;
       VarStmt("i1", Literal(Nil)),
       VarStmt("g1", Literal(Nil)),
       \* var i2; var g2;
       VarStmt("i2", Literal(Nil)),
       VarStmt("g2", Literal(Nil)),
       \* fun mk(first) { var n = 0; fun inc() { n = n + 1; return n; } fun get() { return n; } if (first) { i1 = inc; g1 = get; } else { i2 = inc; g2 = get; } }
       FunctionStmt("mk", <<"first">>, <<VarStmt("n", Literal(Number(0))), FunctionStmt("inc", <<>>, <<ExpressionStmt(AssignExpr(2, "n", BinaryExpr(Variable(1, "n"), "+", Literal(Number(1))))), ReturnStmt(Variable(3, "n"))>>), FunctionStmt("get", <<>>, <<ReturnStmt(Variable(4, "n"))>>), IfStmt(Variable(5, "first"), BlockStmt(<<ExpressionStmt(AssignExpr(7, "i1", Variable(6, "inc"))), ExpressionStmt(AssignExpr(9, "g1", Variable(8, "get")))>>), BlockStmt(<<ExpressionStmt(AssignExpr(11, "i2", Variable(10, "inc"))), ExpressionStmt(AssignExpr(13, "g2", Variable(12, "get")))>>))>>),
       \* mk(true);
       ExpressionStmt(CallExpr(Variable(14, "mk"), <<Literal(Boolean(TRUE))>>)),
       \* mk(false);
       ExpressionStmt(CallExpr(Variable(15, "mk"), <<Literal(Boolean(FALSE))>>))
    >>

CounterOps ==
    <<
       \* i1();
       ExpressionStmt(CallExpr(Variable(16, "i1"), <<>>)),
       \* i2();
       ExpressionStmt(CallExpr(Variable(17, "i2"), <<>>)),
       \* print g1();
       PrintStmt(CallExpr(Variable(18, "g1"), <<>>)),
       \* print g2();
       PrintStmt(CallExpr(Variable(19, "g2"), <<>>))
    >>

\* return from inside blocks, if-statements and loops; a body that falls off its end.
UnwindPrelude ==
    <<
       \* fun f(x) { var i = 0; while (i < 2) { if (i == x) { return i + 10; } i = i + 1; } print "after"; }
       FunctionStmt("f", <<"x">>, <<VarStmt("i", Literal(Number(0))), WhileStmt(BinaryExpr(Variable(20, "i"), "<", Literal(Number(2))), BlockStmt(<<IfStmt(BinaryExpr(Variable(21, "i"), "==", Variable(22, "x")), BlockStmt(<<ReturnStmt(BinaryExpr(Variable(23, "i"), "+", Literal(Number(10))))>>), NoStmt), ExpressionStmt(AssignExpr(25, "i", BinaryExpr(Variable(24, "i"), "+", Literal(Number(1)))))>>)), PrintStmt(Literal(String("after")))>>),
       \* fun g(x) { var r = f(x); print "g"; return r; }
       FunctionStmt("g", <<"x">>, <<VarStmt("r", CallExpr(Variable(26, "f"), <<Variable(27, "x")>>)), PrintStmt(Literal(String("g"))), ReturnStmt(Variable(28, "r"))>>)
    >>

UnwindOps ==
    <<
       \* print f(0);
       PrintStmt(CallExpr(Variable(29, "f"), <<Literal(Number(0))>>)),
       \* print f(1);
       PrintStmt(CallExpr(Variable(30, "f"), <<Literal(Number(1))>>)),
       \* print f(5);
       PrintStmt(CallExpr(Variable(31, "f"), <<Literal(Number(5))>>)),
       \* print g(1);
       PrintStmt(CallExpr(Variable(32, "g"), <<Literal(Number(1))>>)),
       \* return 1;
       ReturnStmt(Literal(Number(1)))
    >>

\* break inside loops, and inside a function declared in a loop.
LoopPrelude ==
    <<
       \* var g;
       VarStmt("g", Literal(Nil)),
       \* fun id(x) { return x; }
       FunctionStmt("id", <<"x">>, <<ReturnStmt(Variable(33, "x"))>>),
       \* while (true) { fun f() { break; } g = f; f(); print "unreachable"; }
       WhileStmt(Literal(Boolean(TRUE)), BlockStmt(<<FunctionStmt("f", <<>>, <<BreakStmt>>), ExpressionStmt(AssignExpr(35, "g", Variable(34, "f"))), ExpressionStmt(CallExpr(Variable(36, "f"), <<>>)), PrintStmt(Literal(String("unreachable")))>>))
    >>

LoopOps ==
    <<
       \* g();
       ExpressionStmt(CallExpr(Variable(37, "g"), <<>>)),
       \* print "next";
       PrintStmt(Literal(String("next"))),
       \* while (true) { print "in"; while (true) { break; } print "out"; break; print "no"; }
       WhileStmt(Literal(Boolean(TRUE)), BlockStmt(<<PrintStmt(Literal(String("in"))), WhileStmt(Literal(Boolean(TRUE)), BlockStmt(<<BreakStmt>>)), PrintStmt(Literal(String("out"))), BreakStmt, PrintStmt(Literal(String("no")))>>)),
       \* while (true) { print id(g()); break; }
       WhileStmt(Literal(Boolean(TRUE)), BlockStmt(<<PrintStmt(CallExpr(Variable(38, "id"), <<CallExpr(Variable(39, "g"), <<>>)>>)), BreakStmt>>))
    >>

\* Every kind of run-time error.
ErrorsPrelude ==
    <<
       \* var a = 1;
       VarStmt("a", Literal(Number(1))),
       \* fun f(x) { print "called"; return x; }
       FunctionStmt("f", <<"x">>, <<PrintStmt(Literal(String("called"))), ReturnStmt(Variable(40, "x"))>>)
    >>

ErrorsOps ==
    <<
       \* print 1 / 0;
       PrintStmt(BinaryExpr(Literal(Number(1)), "/", Literal(Number(0)))),
       \* print x;
       PrintStmt(Variable(41, "x")),
       \* f(1 / 0);
       ExpressionStmt(CallExpr(Variable(42, "f"), <<BinaryExpr(Literal(Number(1)), "/", Literal(Number(0)))>>)),
       \* print a.b;
       PrintStmt(GetExpr(Variable(43, "a"), "b")),
       \* a();
       ExpressionStmt(CallExpr(Variable(44, "a"), <<>>)),
       \* f();
       ExpressionStmt(CallExpr(Variable(45, "f"), <<>>)),
       \* zz = "s" - 1;
       ExpressionStmt(AssignExpr(46, "zz", BinaryExpr(Literal(String("s")), "-", Literal(Number(1))))),
       \* zz = f(a);
       ExpressionStmt(AssignExpr(49, "zz", CallExpr(Variable(47, "f"), <<Variable(48, "a")>>)))
    >>

\* A class with an initializer and a method.
ClassesPrelude ==
    <<
       \* class A { init(x) { this.x = x; } get() { return this.x; } }
       ClassStmt("A", NoStmt, <<FunctionStmt("init", <<"x">>, <<ExpressionStmt(SetExpr(This(50), "x", Variable(51, "x")))>>), FunctionStmt("get", <<>>, <<ReturnStmt(GetExpr(This(52), "x"))>>)>>),
       \* var o = A(5);
       VarStmt("o", CallExpr(Variable(53, "A"), <<Literal(Number(5))>>))
    >>

ClassesOps ==
    <<
       \* print o.get();
       PrintStmt(CallExpr(GetExpr(Variable(54, "o"), "get"), <<>>)),
       \* print o.y;
       PrintStmt(GetExpr(Variable(55, "o"), "y")),
       \* o.x = 7;
       ExpressionStmt(SetExpr(Variable(56, "o"), "x", Literal(Number(7)))),
       \* A(5, 6);
       ExpressionStmt(CallExpr(Variable(57, "A"), <<Literal(Number(5)), Literal(Number(6))>>)),
       \* o.x = o.x + 1;
       ExpressionStmt(SetExpr(Variable(58, "o"), "x", BinaryExpr(GetExpr(Variable(59, "o"), "x"), "+", Literal(Number(1)))))
    >>

\* Nested blocks, shadowing, and closures that outlive a later declaration.
ScopesPrelude ==
    <<
       \* var a = 1;
       VarStmt("a", Literal(Number(1)))
    >>

ScopesOps ==
    <<
       \* { var b = 2; { var c = 3; { print a + b + c; b = c; } print b; } }
       BlockStmt(<<VarStmt("b", Literal(Number(2))), BlockStmt(<<VarStmt("c", Literal(Number(3))), BlockStmt(<<PrintStmt(BinaryExpr(BinaryExpr(Variable(60, "a"), "+", Variable(61, "b")), "+", Variable(62, "c"))), ExpressionStmt(AssignExpr(64, "b", Variable(63, "c")))>>), PrintStmt(Variable(65, "b"))>>)>>),
       \* { fun show() { print a; } show(); var a = 9; show(); }
       BlockStmt(<<FunctionStmt("show", <<>>, <<PrintStmt(Variable(66, "a"))>>), ExpressionStmt(CallExpr(Variable(67, "show"), <<>>)), VarStmt("a", Literal(Number(9))), ExpressionStmt(CallExpr(Variable(68, "show"), <<>>))>>),
       \* { var a = a = 2; print a; }
       BlockStmt(<<VarStmt("a", AssignExpr(69, "a", Literal(Number(2)))), PrintStmt(Variable(70, "a"))>>),
       \* { var a = a; }
       BlockStmt(<<VarStmt("a", Variable(71, "a"))>>),
       \* print a;
       PrintStmt(Variable(72, "a")),
       \* { var i = 0; while (i < 2) { { print i; } i = i + 1; } }
       BlockStmt(<<VarStmt("i", Literal(Number(0))), WhileStmt(BinaryExpr(Variable(73, "i"), "<", Literal(Number(2))), BlockStmt(<<BlockStmt(<<PrintStmt(Variable(74, "i"))>>), ExpressionStmt(AssignExpr(76, "i", BinaryExpr(Variable(75, "i"), "+", Literal(Number(1)))))>>))>>)
    >>

\* Classes with and without an initializer, called with right and wrong numbers of arguments.
InstancesPrelude ==
    <<
       \* class P { init(a) { print "init"; this.a = a; if (a == 0) { return; } this.b = a + 1; } n() { return 7; } }
       ClassStmt("P", NoStmt, <<FunctionStmt("init", <<"a">>, <<PrintStmt(Literal(String("init"))), ExpressionStmt(SetExpr(This(77), "a", Variable(78, "a"))), IfStmt(BinaryExpr(Variable(79, "a"), "==", Literal(Number(0))), BlockStmt(<<ReturnStmt(Literal(Nil))>>), NoStmt), ExpressionStmt(SetExpr(This(80), "b", BinaryExpr(Variable(81, "a"), "+", Literal(Number(1)))))>>), FunctionStmt("n", <<>>, <<ReturnStmt(Literal(Number(7)))>>)>>),
       \* class Q { }
       ClassStmt("Q", NoStmt, <<>>),
       \* fun f(x) { print "f"; }
       FunctionStmt("f", <<"x">>, <<PrintStmt(Literal(String("f")))>>),
       \* var p = P(1);
       VarStmt("p", CallExpr(Variable(82, "P"), <<Literal(Number(1))>>)),
       \* var q = Q();
       VarStmt("q", CallExpr(Variable(83, "Q"), <<>>))
    >>

InstancesOps ==
    <<
       \* P(1, 2);
       ExpressionStmt(CallExpr(Variable(84, "P"), <<Literal(Number(1)), Literal(Number(2))>>)),
       \* Q(1);
       ExpressionStmt(CallExpr(Variable(85, "Q"), <<Literal(Number(1))>>)),
       \* f();
       ExpressionStmt(CallExpr(Variable(86, "f"), <<>>)),
       \* print P(0).a;
       PrintStmt(GetExpr(CallExpr(Variable(87, "P"), <<Literal(Number(0))>>), "a")),
       \* p.n = 3;
       ExpressionStmt(SetExpr(Variable(88, "p"), "n", Literal(Number(3)))),
       \* print p.n;
       PrintStmt(GetExpr(Variable(89, "p"), "n")),
       \* print p.zz;
       PrintStmt(GetExpr(Variable(90, "p"), "zz")),
       \* { class R { init() { print "R"; return 5; } } print R(); }
       BlockStmt(<<ClassStmt("R", NoStmt, <<FunctionStmt("init", <<>>, <<PrintStmt(Literal(String("R"))), ReturnStmt(Literal(Number(5)))>>)>>), PrintStmt(CallExpr(Variable(91, "R"), <<>>))>>)
    >>

\* A chain of three classes.
InheritPrelude ==
    <<
       \* class A { m() { return "A.m"; } k() { return "A.k"; } }
       ClassStmt("A", NoStmt, <<FunctionStmt("m", <<>>, <<ReturnStmt(Literal(String("A.m")))>>), FunctionStmt("k", <<>>, <<ReturnStmt(Literal(String("A.k")))>>)>>),
       \* class B < A { k() { return "B.k"; } }
       ClassStmt("B", Variable(92, "A"), <<FunctionStmt("k", <<>>, <<ReturnStmt(Literal(String("B.k")))>>)>>),
       \* class C < B { }
       ClassStmt("C", Variable(93, "B"), <<>>),
       \* var b = B();
       VarStmt("b", CallExpr(Variable(94, "B"), <<>>)),
       \* var c = C();
       VarStmt("c", CallExpr(Variable(95, "C"), <<>>))
    >>

InheritOps ==
    <<
       \* print b.k();
       PrintStmt(CallExpr(GetExpr(Variable(96, "b"), "k"), <<>>)),
       \* print b.m();
       PrintStmt(CallExpr(GetExpr(Variable(97, "b"), "m"), <<>>)),
       \* print c.k();
       PrintStmt(CallExpr(GetExpr(Variable(98, "c"), "k"), <<>>)),
       \* print c.m();
       PrintStmt(CallExpr(GetExpr(Variable(99, "c"), "m"), <<>>)),
       \* print c.zz;
       PrintStmt(GetExpr(Variable(100, "c"), "zz"))
    >>

\* Comparing classes, instances and functions.
EqualityPrelude ==
    <<
       \* class E { }
       ClassStmt("E", NoStmt, <<>>),
       \* class M { m() { } }
       ClassStmt("M", NoStmt, <<FunctionStmt("m", <<>>, <<>>)>>),
       \* fun f() { }
       FunctionStmt("f", <<>>, <<>>),
       \* fun g() { }
       FunctionStmt("g", <<>>, <<>>),
       \* var a = E();
       VarStmt("a", CallExpr(Variable(101, "E"), <<>>)),
       \* var b = E();
       VarStmt("b", CallExpr(Variable(102, "E"), <<>>)),
       \* var m = M();
       VarStmt("m", CallExpr(Variable(103, "M"), <<>>))
    >>

EqualityOps ==
    <<
       \* print a == a;
       PrintStmt(BinaryExpr(Variable(104, "a"), "==", Variable(105, "a"))),
       \* print a == b;
       PrintStmt(BinaryExpr(Variable(106, "a"), "==", Variable(107, "b"))),
       \* print a != b;
       PrintStmt(BinaryExpr(Variable(108, "a"), "!=", Variable(109, "b"))),
       \* print m == m;
       PrintStmt(BinaryExpr(Variable(110, "m"), "==", Variable(111, "m"))),
       \* print M == M;
       PrintStmt(BinaryExpr(Variable(112, "M"), "==", Variable(113, "M"))),
       \* print f == g;
       PrintStmt(BinaryExpr(Variable(114, "f"), "==", Variable(115, "g"))),
       \* print E == a;
       PrintStmt(BinaryExpr(Variable(116, "E"), "==", Variable(117, "a"))),
       \* print a == nil;
       PrintStmt(BinaryExpr(Variable(118, "a"), "==", Literal(Nil)))
    >>

\* The operators + and / on numbers and strings.
ArithPrelude ==
    <<
       \* var two = 2;
       VarStmt("two", Literal(Number(2)))
    >>

ArithOps ==
    <<
       \* print 1 + "2";
       PrintStmt(BinaryExpr(Literal(Number(1)), "+", Literal(String("2")))),
       \* print "2" + 1;
       PrintStmt(BinaryExpr(Literal(String("2")), "+", Literal(Number(1)))),
       \* print 1 + two;
       PrintStmt(BinaryExpr(Literal(Number(1)), "+", Variable(119, "two"))),
       \* print "a" + "b";
       PrintStmt(BinaryExpr(Literal(String("a")), "+", Literal(String("b")))),
       \* print 6 / two;
       PrintStmt(BinaryExpr(Literal(Number(6)), "/", Variable(120, "two"))),
       \* print 7 / two;
       PrintStmt(BinaryExpr(Literal(Number(7)), "/", Variable(121, "two"))),
       \* print two / 0;
       PrintStmt(BinaryExpr(Variable(122, "two"), "/", Literal(Number(0)))),
       \* print 0 / 0;
       PrintStmt(BinaryExpr(Literal(Number(0)), "/", Literal(Number(0))))
    >>

\* or and and with an operand whose evaluation shows.
LogicPrelude ==
    <<
       \* fun t(x) { print "t"; return x; }
       FunctionStmt("t", <<"x">>, <<PrintStmt(Literal(String("t"))), ReturnStmt(Variable(123, "x"))>>)
    >>

LogicOps ==
    <<
       \* print 1 or t(2);
       PrintStmt(LogicalExpr(Literal(Number(1)), "or", CallExpr(Variable(124, "t"), <<Literal(Number(2))>>))),
       \* print nil or t(2);
       PrintStmt(LogicalExpr(Literal(Nil), "or", CallExpr(Variable(125, "t"), <<Literal(Number(2))>>))),
       \* print false or t(nil);
       PrintStmt(LogicalExpr(Literal(Boolean(FALSE)), "or", CallExpr(Variable(126, "t"), <<Literal(Nil)>>))),
       \* print 0 and t(3);
       PrintStmt(LogicalExpr(Literal(Number(0)), "and", CallExpr(Variable(127, "t"), <<Literal(Number(3))>>))),
       \* print "" and t(4);
       PrintStmt(LogicalExpr(Literal(String("")), "and", CallExpr(Variable(128, "t"), <<Literal(Number(4))>>))),
       \* print nil and t(5);
       PrintStmt(LogicalExpr(Literal(Nil), "and", CallExpr(Variable(129, "t"), <<Literal(Number(5))>>))),
       \* print false and t(6);
       PrintStmt(LogicalExpr(Literal(Boolean(FALSE)), "and", CallExpr(Variable(130, "t"), <<Literal(Number(6))>>)))
    >>

\* What the Resolver looks for: a variable read in its own initializer in a
\* function body, a method body and a block, reads after the declaration and
\* of names of outer scopes, and the other violations.
ResolverPrelude ==
    <<
       \* var a = 1;
       VarStmt("a", Literal(Number(1)))
    >>

ResolverOps ==
    <<
       \* fun f() { var a = a; }
       FunctionStmt("f", <<>>, <<VarStmt("a", Variable(131, "a"))>>),
       \* class C { m() { var a = a; } }
       ClassStmt("C", NoStmt, <<FunctionStmt("m", <<>>, <<VarStmt("a", Variable(132, "a"))>>)>>),
       \* { { var a = a; } }
       BlockStmt(<<BlockStmt(<<VarStmt("a", Variable(133, "a"))>>)>>),
       \* { var b = a; var c = b; { print c; print a; } }
       BlockStmt(<<VarStmt("b", Variable(134, "a")), VarStmt("c", Variable(135, "b")), BlockStmt(<<PrintStmt(Variable(136, "c")), PrintStmt(Variable(137, "a"))>>)>>),
       \* fun g(p) { var q = p; { var r = q; print r; } }
       FunctionStmt("g", <<"p">>, <<VarStmt("q", Variable(138, "p")), BlockStmt(<<VarStmt("r", Variable(139, "q")), PrintStmt(Variable(140, "r"))>>)>>),
       \* return;
       ReturnStmt(Literal(Nil)),
       \* print this;
       PrintStmt(This(141)),
       \* class A < A { }
       ClassStmt("A", Variable(142, "A"), <<>>),
       \* class D { init() { return 1; } }
       ClassStmt("D", NoStmt, <<FunctionStmt("init", <<>>, <<ReturnStmt(Literal(Number(1)))>>)>>),
       \* { var d = 1; var d = 2; }
       BlockStmt(<<VarStmt("d", Literal(Number(1))), VarStmt("d", Literal(Number(2)))>>)
    >>

\* Blocks and function bodies that end normally, with a return, with a break
\* and with a runtime error, inside other blocks.
BlocksPrelude ==
    <<
       \* fun r() { { return 1; } }
       FunctionStmt("r", <<>>, <<BlockStmt(<<ReturnStmt(Literal(Number(1)))>>)>>),
       \* fun e() { { print 1 / 0; } }
       FunctionStmt("e", <<>>, <<BlockStmt(<<PrintStmt(BinaryExpr(Literal(Number(1)), "/", Literal(Number(0))))>>)>>)
    >>

BlocksOps ==
    <<
       \* print r();
       PrintStmt(CallExpr(Variable(143, "r"), <<>>)),
       \* { while (true) { { break; } } { print 2; } }
       BlockStmt(<<WhileStmt(Literal(Boolean(TRUE)), BlockStmt(<<BlockStmt(<<BreakStmt>>)>>)), BlockStmt(<<PrintStmt(Literal(Number(2)))>>)>>),
       \* e();
       ExpressionStmt(CallExpr(Variable(144, "e"), <<>>)),
       \* { { print 1 / 0; } print 3; }
       BlockStmt(<<BlockStmt(<<PrintStmt(BinaryExpr(Literal(Number(1)), "/", Literal(Number(0))))>>), PrintStmt(Literal(Number(3)))>>)
    >>

Scenarios ==
    <<[prelude |-> CounterPrelude, ops |-> CounterOps],
      [prelude |-> UnwindPrelude, ops |-> UnwindOps],
      [prelude |-> LoopPrelude, ops |-> LoopOps],
      [prelude |-> ErrorsPrelude, ops |-> ErrorsOps],
      [prelude |-> ClassesPrelude, ops |-> ClassesOps],
      [prelude |-> ScopesPrelude, ops |-> ScopesOps],
      [prelude |-> InstancesPrelude, ops |-> InstancesOps],
      [prelude |-> InheritPrelude, ops |-> InheritOps],
      [prelude |-> EqualityPrelude, ops |-> EqualityOps],
      [prelude |-> ArithPrelude, ops |-> ArithOps],
      [prelude |-> LogicPrelude, ops |-> LogicOps],
      [prelude |-> ResolverPrelude, ops |-> ResolverOps],
      [prelude |-> BlocksPrelude, ops |-> BlocksOps]>>

\* The number of statements that follow the prelude is at most MaxTail.
MaxTail == 3

\* The sequences of at most n different statements of ops
Tails(ops, n) ==
    UNION {{[i \in 1..k |-> ops[p[i]]] :
                p \in {q \in [1..k -> 1..Len(ops)] :
                          \A i, j \in 1..k : q[i] = q[j] => i = j}} :
           k \in 0..n}

Programs ==
    UNION {{Scenarios[s].prelude \o t : t \in Tails(Scenarios[s].ops, MaxTail)} :
           s \in 1..Len(Scenarios)}

(***************************************************************************)
(* The parser (parser.rs).  loop_depth counts the while and for statements *)
(* being parsed; it is the only guard of a break statement, and neither    *)
(* function() nor class_declaration() touches it.  The body of a loop and  *)
(* the branches of an if are parsed by statement(), which has no           *)
(* declarations.                                                           *)
(***************************************************************************)
IsDeclaration(stmt) == stmt.t \in {"Class", "Function", "Var"}

RECURSIVE ParserAccepts(_, _)
ParserAccepts(stmt, loop_depth) ==
    CASE stmt.t = "Break" -> loop_depth # 0
      [] stmt.t = "While" ->
            ~IsDeclaration(stmt.body) /\ ParserAccepts(stmt.body, loop_depth + 1)
      [] stmt.t = "If" ->
            /\ ~IsDeclaration(stmt.then_branch)
            /\ ParserAccepts(stmt.then_branch, loop_depth)
            /\ stmt.else_branch # NoStmt =>
                  /\ ~IsDeclaration(stmt.else_branch)
                  /\ ParserAccepts(stmt.else_branch, loop_depth)
      [] stmt.t = "Block" ->
            \A i \in 1..Len(stmt.stmts) : ParserAccepts(stmt.stmts[i], loop_depth)
      [] stmt.t = "Function" ->
            \A i \in 1..Len(stmt.body) : ParserAccepts(stmt.body[i], loop_depth)
      [] stmt.t = "Class" ->
            \A i \in 1..Len(stmt.methods) : ParserAccepts(stmt.methods[i], loop_depth)
      [] OTHER -> TRUE

\* Parser::parse_stmts keeps the declarations that parse without error
parse_stmts(stmts) == SelectSeq(stmts, LAMBDA s : ParserAccepts(s, 0))

(***************************************************************************)
(* Spec: one run of the driver on a program.                               *)
(*   phase   "resolve": parsed, the Resolver has not run                   *)
(*           "run":     Interpreter::interpret is at statement idx         *)
(*           "done":    the run is over                                    *)
(*           "panicked": the process died of a panic                       *)
(***************************************************************************)
\* op and nops belong to EnvSpec; here they rest.
\* no Scanner at work
NoScanner == <<>>

NoParser == <<>>

NoOp == [kind |-> "none", f |-> 0, d |-> 0, name |-> "", pre |-> <<>>, r |-> Ok(Nil)]

St ==
    [frames |-> frames, refs |-> refs, env |-> env, out |-> out,
     sink |-> [errors_collected |-> errors_collected, had_error |-> had_error,
               had_runtime_error |-> had_runtime_error],
     mut |-> {}, shared |-> <<>>, hist |-> hist]

Install(st) ==
    /\ frames' = st.frames
    /\ refs' = st.refs
    /\ env' = st.env
    /\ out' = st.out
    /\ errors_collected' = st.sink.errors_collected
    /\ had_error' = st.sink.had_error
    /\ had_runtime_error' = st.sink.had_runtime_error
    /\ hist' = st.hist

Init ==
    /\ prog \in Programs
    /\ parse_stmts(prog) = prog
    /\ phase = "resolve"
    /\ idx = 0
    /\ locals = <<>>
    /\ LET st == NewInterpreter(NewSink)
       IN /\ frames = st.frames
          /\ refs = st.refs
          /\ env = st.env
          /\ out = st.out
          /\ errors_collected = st.sink.errors_collected
          /\ had_error = st.sink.had_error
          /\ had_runtime_error = st.sink.had_runtime_error
          /\ hist = st.hist
    /\ op = NoOp
    /\ nops = 0
    /\ scanner = NoScanner
    /\ parser = NoParser

\* The driver runs the Resolver on the whole program before any statement
\* is executed.  Whether the driver goes on to execute a program the
\* Resolver complained about is left open: both are possible here.
RunResolver ==
    /\ phase = "resolve"
    /\ LET rs == resolve_stmts(St.sink, prog)
       IN /\ locals' = rs.locals
          /\ Install([St EXCEPT !.sink = rs.sink,
                                !.hist.resolverReports = Len(rs.sink.errors_collected)])
          /\ phase' \in IF rs.sink.errors_collected = <<>> THEN {"run"} ELSE {"run", "done"}
    /\ idx' = 1
    /\ UNCHANGED <<prog, op, nops, scanner, parser>>

\* Interpreter::interpret, after a statement: is_err() ends the batch
\* (a faulty variant goes on to the next statement whatever happened)
InterpretNext_continuing(r, i) ==
    IF r.k = "panic" THEN [phase |-> "panicked", idx |-> i]
    ELSE [phase |-> "run", idx |-> i + 1]

InterpretNext(r, i) ==
    IF r.k = "panic" THEN [phase |-> "panicked", idx |-> i]
    ELSE IF r.k = "err" THEN [phase |-> "done", idx |-> i]
    ELSE [phase |-> "run", idx |-> i + 1]

\* hist.executed remembers the statement, its result, and how many errors
\* it raised and reported.
ExecutedEntry(r) ==
    [i |-> idx, r |-> r.r,
     raised |-> Len(r.st.hist.raised) - Len(hist.raised),
     reports |-> Len(r.st.sink.errors_collected) - Len(errors_collected),
     flag |-> r.st.sink.had_runtime_error /\ ~had_runtime_error]

\* Interpreter::interpret, what follows the evaluation of statement idx
InterpretResult(r) ==
    /\ Install([r.st EXCEPT !.hist.executed = Append(@, ExecutedEntry(r))])
    /\ phase' = InterpretNext(r.r, idx).phase
    /\ idx' = InterpretNext(r.r, idx).idx

\* Interpreter::interpret, one turn of its loop
InterpretStmt ==
    /\ phase = "run"
    /\ idx <= Len(prog)
    /\ InterpretResult(evaluate_stmt([St EXCEPT !.hist.errPending = FALSE], prog[idx]))
    /\ UNCHANGED <<prog, locals, op, nops, scanner, parser>>

\* Interpreter::interpret, the end of the loop
InterpretEnd ==
    /\ phase = "run"
    /\ idx > Len(prog)
    /\ phase' = "done"
    /\ UNCHANGED <<prog, idx, locals, frames, refs, env, out, errors_collected,
                   had_error, had_runtime_error, hist, op, nops, scanner, parser>>

Next == RunResolver \/ InterpretStmt \/ InterpretEnd

Spec == Init /\ [][Next]_vars

(***************************************************************************)
(* Readers of the history                                                  *)
(***************************************************************************)
Executed == hist.executed

LastExecuted == Executed[Len(Executed)]

\* The statements after the prelude that have been executed so far
ExecutedTail(prelude) == SubSeq(prog, Len(prelude) + 1, Len(Executed))

RunsScenario(prelude) ==
    Len(prog) >= Len(prelude) /\ SubSeq(prog, 1, Len(prelude)) = prelude

\* The output of the statements of tail, given what each of ops prints
OutputOf(tail, prints(_, _)) ==
    LET F[k \in 0..Len(tail)] == IF k = 0 THEN <<>> ELSE F[k - 1] \o prints(tail, k)
    IN F[Len(tail)]

(***************************************************************************)
(* C1: for every variable or assignment node that the Resolver annotated   *)
(* with a hop distance d, whenever the evaluator evaluates the node the    *)
(* frame d enclosing links away from the current frame holds the binding   *)
(* of the name.  (Stated for the programs the Resolver did not complain    *)
(* about.)                                                                 *)
(***************************************************************************)
C1_HopDistanceExact == hist.resolverReports = 0 => hist.hopMiss = {}

(***************************************************************************)
(* C2: closures capture their defining frame by shared reference.  Two     *)
(* functions declared during the same invocation read and write the same   *)
(* binding of a local of that invocation, the one in the invocation's own  *)
(* frame; functions declared during different invocations never share one. *)
(* In the counter programs, reading through g1 shows exactly the           *)
(* increments made through i1, and reading through g2 those through i2.    *)
(***************************************************************************)
DeclaredFunctions == {r \in DOMAIN hist.declEnv : hist.born[r] # 0}

InvocationFrame(r) == hist.invFrame[hist.born[r]]

\* the frame whose binding of name the function r reads and writes
Sees(r, name) == NearestDefining(frames, refs[r].closure, name)

\* where r was declared, name meant the local of the invocation
Captures(r, name) ==
    /\ Defines(frames, InvocationFrame(r), name)
    /\ NearestDefining(frames, hist.declEnv[r], name) = InvocationFrame(r)

CapturedNames == {"n", "first", "x", "i", "r"}

CounterPrints(tail, k) ==
    LET calls(s) == Cardinality({j \in 1..(k - 1) : tail[j] = s})
    IN IF tail[k] = CounterOps[3] THEN <<ToString(calls(CounterOps[1]))>>
       ELSE IF tail[k] = CounterOps[4] THEN <<ToString(calls(CounterOps[2]))>>
       ELSE <<>>

C2_ClosuresShareFrame ==
    /\ \A r1, r2 \in DeclaredFunctions : \A name \in CapturedNames :
          (Captures(r1, name) /\ Captures(r2, name)) =>
              ((Sees(r1, name) = Sees(r2, name)) <=> (hist.born[r1] = hist.born[r2]))
    /\ RunsScenario(CounterPrelude) =>
          out = OutputOf(ExecutedTail(CounterPrelude), CounterPrints)

\* i1 was called and g1 then read 1
C2_WitnessShared ==
    /\ prog = CounterPrelude \o <<CounterOps[1], CounterOps[3], CounterOps[4]>>
    /\ phase = "done"
    /\ out = <<"1", "0">>

(***************************************************************************)
(* C3: a return signal unwinds exactly to the nearest enclosing call: the  *)
(* call whose body executed `return e` ends with the value of e, no step   *)
(* of that body is taken after the return, the caller goes on with that    *)
(* value, and a call whose body ends without return yields nil.            *)
(***************************************************************************)
UnwindPrints(tail, k) ==
    CASE tail[k] = UnwindOps[1] -> <<"10">>
      [] tail[k] = UnwindOps[2] -> <<"11">>
      [] tail[k] = UnwindOps[3] -> <<"after", "Nil">>
      [] tail[k] = UnwindOps[4] -> <<"g", "11">>
      [] OTHER -> <<>>

C3_ReturnUnwindsToCall ==
    /\ ~hist.stepAfterReturn
    /\ \A c \in 1..Len(hist.calls) :
          LET call == hist.calls[c]
          IN /\ (call.body.k = "err" /\ call.body.e = "Return") =>
                    call.got = Ok(call.sent) /\ call.body.v = call.sent
             /\ call.body.k = "ok" => call.got = Ok(Nil)
    /\ RunsScenario(UnwindPrelude) =>
          out = OutputOf(ExecutedTail(UnwindPrelude), UnwindPrints)

\* g called f, f returned from inside its loop, g went on and returned the value;
\* another call of f fell off the end of its body
C3_WitnessReturn ==
    /\ prog = UnwindPrelude \o <<UnwindOps[4], UnwindOps[3]>>
    /\ phase = "done"
    /\ out = <<"g", "11", "after", "Nil">>
    /\ \E c \in 1..Len(hist.calls) : hist.calls[c].body.k = "ok"

C5_ErrorAbortsStatement == ~hist.stepAfterErr /\ ~hist.callAfterArgErr

(***************************************************************************)
(* C6: interpret runs the top-level statements in source order; after the  *)
(* first statement that ends in an error none of the remaining statements  *)
(* is executed, and every statement before it ended normally.              *)
(***************************************************************************)
C6_InterpretInOrder ==
    /\ \A j \in 1..Len(Executed) : Executed[j].i = j
    /\ \A j \in 1..(Len(Executed) - 1) : Executed[j].r.k = "ok"
    /\ phase = "run" => idx = Len(Executed) + 1
    /\ (phase = "done" /\ Executed # <<>> /\ LastExecuted.r.k = "ok") =>
          Len(Executed) = Len(prog)

\* a statement failed after others had run, and statements were left unexecuted
C6_WitnessStopped ==
    /\ phase = "done"
    /\ Len(Executed) >= 2
    /\ Len(Executed) < Len(prog)
    /\ LastExecuted.r.k = "err" /\ LastExecuted.r.e \notin ControlSignals

(***************************************************************************)
(* C7: every run-time error is reported to the diagnostic sink exactly     *)
(* once: each top-level statement adds as many reports as errors were      *)
(* raised in it.                                                           *)
(***************************************************************************)
C7_ReportedExactlyOnce ==
    \A j \in 1..Len(Executed) : Executed[j].reports = Executed[j].raised

(***************************************************************************)
(* C8: the return signal and the break signal never reach the diagnostic   *)
(* sink: no report carries the text of either, and a statement in which no *)
(* run-time error was raised, however it ended, neither adds a report nor  *)
(* sets the runtime-error flag.                                            *)
(***************************************************************************)
C8_SignalsNeverReported ==
    /\ \A k \in 1..Len(errors_collected) :
          errors_collected[k].msg \notin {ErrorMessage(e) : e \in ControlSignals}
    /\ \A j \in 1..Len(Executed) :
          Executed[j].raised = 0 => (Executed[j].reports = 0 /\ ~Executed[j].flag)
    /\ had_runtime_error => errors_collected # <<>>

\* a call ended by a return signal, another by a break signal, and a break
\* signal reached the top-level runner: the sink stayed empty
C8_WitnessSignals ==
    /\ phase = "done"
    /\ \E c \in 1..Len(hist.calls) : hist.calls[c].body.e = "Return"
    /\ \E c \in 1..Len(hist.calls) : hist.calls[c].body.e = "Breaking"
    /\ Executed # <<>> /\ LastExecuted.r.e = "Breaking"
    /\ errors_collected = <<>>

(***************************************************************************)
(* C11: a call whose number of arguments differs from the number the       *)
(* callee declares (a function's parameters; for a class the parameters of *)
(* its init method, 0 when it has none) is a wrong-number-of-arguments     *)
(* run-time error, raised and reported once, before the evaluator takes a  *)
(* step in the body or initializer and before any object (so any instance) *)
(* is created.  A call with the declared number is not refused: when it    *)
(* ends without a step taken, it ends with a value.                        *)
(***************************************************************************)
Invoked == hist.invoked

\* the number of arguments the callee declares, read off the object heap
DeclaredArity(callee) ==
    CASE refs[callee].t = "Native" -> refs[callee].arity
      [] refs[callee].t = "Function" -> Len(refs[callee].code.params)
      [] refs[callee].t = "Class" ->
            IF "init" \in DOMAIN refs[callee].methods
            THEN Len(refs[refs[callee].methods["init"].r].code.params)
            ELSE 0

WrongCount(c) == Len(c.args) # DeclaredArity(c.callee)

ClassCalls ==
    {k \in 1..Len(Invoked) :
        /\ refs[Invoked[k].callee].t = "Class"
        /\ ~WrongCount(Invoked[k])
        /\ Invoked[k].r.k # "panic"}

HasInit(class) == "init" \in DOMAIN refs[class].methods

\* the object a class call creates first
NewInstance(c) == c.refs0 + 1

\* the entry of the initializer's body, and how its call ended
InitBegan(c) == hist.began[c.inv0 + 1]

InitEnded(c) == hist.calls[c.calls1]

IsNewInstance(c) ==
    /\ c.refs1 > c.refs0
    /\ refs[NewInstance(c)].t = "Instance"
    /\ refs[NewInstance(c)].class = c.callee

Lookups == hist.lookups

\* v is the method m bound to inst: the same declaration, closed over one new
\* frame that holds `this` and encloses the closure of m
IsBoundMethod(v, m, inst) ==
    /\ v.k = "ref"
    /\ refs[v.r].t = "Function"
    /\ refs[v.r].code = refs[m.r].code
    /\ refs[v.r].closure # refs[m.r].closure
    /\ frames[refs[v.r].closure].enclosing = refs[m.r].closure
    /\ frames[refs[v.r].closure].values = ("this" :> Ref(inst))

LookupAsSpecified(l) ==
    /\ l.name \in DOMAIN l.fields => l.r = Ok(l.fields[l.name])
    /\ (l.name \notin DOMAIN l.fields /\ l.name \in DOMAIN l.methods) =>
          l.r.k = "ok" /\ IsBoundMethod(l.r.v, l.methods[l.name], l.inst)
    /\ (l.name \notin DOMAIN l.fields /\ l.name \notin DOMAIN l.methods) =>
          l.r = Err("UndefinedProperty")
    /\ l.fields1 = l.fields
    /\ l.methods1 = l.methods

C13_LookupFieldThenMethod ==
    \A k \in 1..Len(Lookups) : LookupAsSpecified(Lookups[k])

(***************************************************************************)
(* C14: when a class declares a superclass, a lookup on an instance that   *)
(* finds no field of the name finds the method in the nearest class of the *)
(* chain class, superclass, superclass of the superclass, ... that defines *)
(* it, bound to the instance; it fails with an undefined-property error    *)
(* only when no class of the chain defines the name.                       *)
(***************************************************************************)
Declared == hist.declared

ClassNamed(name) ==
    IF \E d \in Range(Declared) : refs[d.class].name = name
    THEN (CHOOSE d \in Range(Declared) : refs[d.class].name = name).class
    ELSE 0

\* the class object of the superclass the declaration of class names, 0: none
SuperOf(class) ==
    IF \E d \in Range(Declared) : d.class = class /\ d.superclass # NoStmt
    THEN ClassNamed((CHOOSE d \in Range(Declared) : d.class = class).superclass.name)
    ELSE 0

\* the method a lookup of name finds when it walks the chain upward, Nil: none
RECURSIVE ChainMethod(_, _, _)
ChainMethod(class, name, fuel) ==
    IF class = 0 \/ fuel = 0 THEN Nil
    ELSE IF name \in DOMAIN refs[class].methods THEN refs[class].methods[name]
    ELSE ChainMethod(SuperOf(class), name, fuel - 1)

InheritedLookup(l) ==
    LET m == ChainMethod(refs[l.inst].class, l.name, Len(refs))
    IN /\ m # Nil => l.r.k = "ok" /\ IsBoundMethod(l.r.v, m, l.inst)
       /\ m = Nil => l.r = Err("UndefinedProperty")

C14_InheritedMethodFound ==
    \A k \in 1..Len(Lookups) :
        (Lookups[k].r.k # "panic" /\ Lookups[k].name \notin DOMAIN Lookups[k].fields) =>
            InheritedLookup(Lookups[k])

(***************************************************************************)
(* C15: == and != compare classes, instances and functions by identity.    *)
(* A class or an instance is equal to itself; two different instances are  *)
(* unequal, also when they have the same class and equal fields; two       *)
(* different functions are unequal; values of different types are unequal. *)
(* != gives the opposite of ==.                                            *)
(***************************************************************************)
Compared == {k \in 1..Len(hist.binary) : hist.binary[k].operator \in {"==", "!="}}

\* the type of a value; for a reference the kind of object it refers to
TypeOf(v) ==
    IF v.k # "ref" THEN v.k
    ELSE IF refs[v.r].t \in {"Function", "Native"} THEN "Function"
    ELSE refs[v.r].t

Answers(b, equal) ==
    b.r = Ok(Boolean(IF b.operator = "==" THEN equal ELSE ~equal))

ComparedByIdentity(b) ==
    /\ TypeOf(b.left) # TypeOf(b.right) => Answers(b, FALSE)
    /\ (b.left.k = "ref" /\ b.right.k = "ref" /\ b.left.r # b.right.r) => Answers(b, FALSE)
    /\ (b.left.k = "ref" /\ b.left = b.right /\ TypeOf(b.left) \in {"Class", "Instance"}) =>
          Answers(b, TRUE)

C15_ReferencesComparedByIdentity ==
    \A k \in Compared : ComparedByIdentity(hist.binary[k])

(***************************************************************************)
(* C16, as stated: + with exactly one string operand concatenates the      *)
(* string with the text of the other operand, whichever side the string is *)
(* on (1 + "2" is "12", "2" + 1 is "21"); two numbers are added, two       *)
(* strings concatenated.                                                   *)
(***************************************************************************)
Added == {k \in 1..Len(hist.binary) : hist.binary[k].operator = "+"}

\* what a value contributes to a concatenation
TextOf(v) == IF v.k = "str" THEN v.s ELSE Display(St, v).s

Sum(l, r) == Ratio(l.n * r.d + r.n * l.d, l.d * r.d)

PlusOfLike(b) ==
    /\ (b.left.k = "num" /\ b.right.k = "num") => b.r = Ok(Sum(b.left, b.right))
    /\ (b.left.k = "str" /\ b.right.k = "str") => b.r = Ok(String(b.left.s \o b.right.s))

C16_PlusConcatenatesEitherSide ==
    \A k \in Added :
        /\ PlusOfLike(hist.binary[k])
        /\ (hist.binary[k].left.k = "str") # (hist.binary[k].right.k = "str") =>
              hist.binary[k].r =
                  Ok(String(TextOf(hist.binary[k].left) \o TextOf(hist.binary[k].right)))

(***************************************************************************)
(* C16, amended: + concatenates when the left operand is a string, with    *)
(* the text of the right operand whatever it is ("2" + 1 is "21"); two     *)
(* numbers are added (1 + 2 is 3); every other pair of operands, a string  *)
(* on the right of a number included (1 + "2"), is a run-time error,       *)
(* reported once, that the operands of + are wrong.                        *)
(***************************************************************************)
C16_PlusConcatenatesStringLeft ==
    \A k \in Added :
        /\ PlusOfLike(hist.binary[k])
        /\ (hist.binary[k].left.k = "str" /\ hist.binary[k].right.k # "str") =>
              hist.binary[k].r =
                  Ok(String(hist.binary[k].left.s \o TextOf(hist.binary[k].right)))
        /\ (hist.binary[k].left.k # "str" /\
            ~(hist.binary[k].left.k = "num" /\ hist.binary[k].right.k = "num")) =>
              /\ hist.binary[k].r = Err("PlusOperandsWrong")
              /\ Len(hist.binary[k].reports) = 1
        /\ (hist.binary[k].left = String("2") /\ hist.binary[k].right = Number(1)) =>
              hist.binary[k].r = Ok(String("21"))
        /\ (hist.binary[k].left = Number(1) /\ hist.binary[k].right = Number(2)) =>
              hist.binary[k].r = Ok(Number(3))

\* "2" + 1 has given "21", 1 + 2 has given 3, and 1 + "2" has been refused
C16_WitnessPlus ==
    /\ \E k \in Added :
          /\ hist.binary[k].left = String("2") /\ hist.binary[k].right = Number(1)
          /\ hist.binary[k].r = Ok(String("21"))
    /\ \E k \in Added :
          /\ hist.binary[k].left = Number(1) /\ hist.binary[k].right = Number(2)
          /\ hist.binary[k].r = Ok(Number(3))
    /\ \E k \in Added :
          /\ hist.binary[k].left = Number(1) /\ hist.binary[k].right = String("2")
          /\ hist.binary[k].r = Err("PlusOperandsWrong")

(***************************************************************************)
(* C17: l / r on two numbers with r = 0 never gives a value: it is the     *)
(* run-time error DivideByZero, reported to the sink once.  With r other   *)
(* than 0 it gives the quotient, the number q with q * r = l.              *)
(***************************************************************************)
Divided ==
    {k \in 1..Len(hist.binary) :
        /\ hist.binary[k].operator = "/"
        /\ hist.binary[k].left.k = "num"
        /\ hist.binary[k].right.k = "num"}

IsQuotient(q, l, r) ==
    /\ q.k = "num"
    /\ q.d # 0
    /\ q.n * r.n * l.d = l.n * r.d * q.d

C17_DivisionByZeroIsError ==
    \A k \in Divided :
        /\ hist.binary[k].right.n = 0 =>
              /\ hist.binary[k].r = Err("DivideByZero")
              /\ Len(hist.binary[k].reports) = 1
              /\ hist.binary[k].reports[1].via = "runtime_error"
              /\ hist.binary[k].reports[1].msg = "Attempted to divide by zero"
        /\ hist.binary[k].right.n # 0 =>
              /\ hist.binary[k].r.k = "ok"
              /\ IsQuotient(hist.binary[k].r.v, hist.binary[k].left, hist.binary[k].right)

\* a division by a number other than zero has given its quotient, and after
\* it both a number and zero itself have been divided by zero
C17_WitnessDivision ==
    /\ \E k \in Divided :
          hist.binary[k].right.n # 0 /\ hist.binary[k].r.k = "ok" /\ hist.binary[k].r.v.d = 2
    /\ \E k \in Divided :
          hist.binary[k].right.n = 0 /\ hist.binary[k].left.n # 0 /\ hist.binary[k].r.k = "err"

(***************************************************************************)
(* C18: `a or b` gives the value of a itself, and does not evaluate b,     *)
(* when a is truthy; otherwise it evaluates b and gives its value.         *)
(* `a and b` gives the value of a itself, and does not evaluate b, when a  *)
(* is falsy; otherwise it evaluates b and gives its value.  Only nil and   *)
(* false are falsy: 0 and "" are truthy.  In the programs with the         *)
(* function t, which prints t and returns its argument, the output shows   *)
(* which operands were evaluated and the value the operator gave.          *)
(***************************************************************************)
Falsy(v) == v = Nil \/ v = Boolean(FALSE)

\* the operator gave the left operand and evaluated nothing more
GaveLeft(g) == g.r = Ok(g.left) /\ g.steps = 0 /\ g.out = <<>>

ShortCircuits(g) ==
    IF g.operator = "or"
    THEN IF Falsy(g.left) THEN g.steps > 0 ELSE GaveLeft(g)
    ELSE IF Falsy(g.left) THEN GaveLeft(g) ELSE g.steps > 0

LogicPrints(tail, k) ==
    CASE tail[k] = LogicOps[1] -> <<"1">>
      [] tail[k] = LogicOps[2] -> <<"t", "2">>
      [] tail[k] = LogicOps[3] -> <<"t", "Nil">>
      [] tail[k] = LogicOps[4] -> <<"t", "3">>
      [] tail[k] = LogicOps[5] -> <<"t", "4">>
      [] tail[k] = LogicOps[6] -> <<"Nil">>
      [] tail[k] = LogicOps[7] -> <<"false">>
      [] OTHER -> <<>>

C18_LogicalShortCircuit ==
    /\ \A k \in 1..Len(hist.logical) : ShortCircuits(hist.logical[k])
    /\ RunsScenario(LogicPrelude) =>
          out = OutputOf(ExecutedTail(LogicPrelude), LogicPrints)

\* `1 or t(2)` has given 1 without a call of t, `0 and t(3)` has called t and
\* given 3
C18_WitnessLogical ==
    /\ \E k \in 1..Len(hist.logical) :
          /\ hist.logical[k].operator = "or"
          /\ hist.logical[k].left = Number(1)
          /\ GaveLeft(hist.logical[k])
    /\ \E k \in 1..Len(hist.logical) :
          /\ hist.logical[k].operator = "and"
          /\ hist.logical[k].left = Number(0)
          /\ hist.logical[k].r = Ok(Number(3))
          /\ hist.logical[k].out = <<"t">>

(***************************************************************************)
(* EnvSpec: the Environment operations applied to arbitrary frame chains   *)
(***************************************************************************)
EnvNames == {"a", "b"}
WrittenValue == String("w")

\* Frame i encloses frame i + 1; a name bound in frame i starts as Number(i).
EnvHeaps(n) ==
    {[i \in 1..n |-> [enclosing |-> i - 1,
                      values |-> [x \in D[i] |-> Number(i)]]] :
        D \in [1..n -> SUBSET EnvNames]}

EnvIdle ==
    /\ prog = <<>> /\ idx = 0 /\ locals = <<>> /\ refs = <<>> /\ env = 1
    /\ out = <<>> /\ errors_collected = <<>>
    /\ had_error = FALSE /\ had_runtime_error = FALSE /\ hist = <<>>
    /\ scanner = NoScanner
    /\ parser = NoParser

EnvInit ==
    /\ phase = "env"
    /\ frames \in EnvHeaps(MaxFrames)
    /\ op = NoOp
    /\ nops = 0
    /\ EnvIdle

EnvUnchanged ==
    UNCHANGED <<prog, phase, idx, locals, refs, env, out, errors_collected,
                had_error, had_runtime_error, hist, scanner, parser>>

EnvStep(kind, f, d, name, fs, r) ==
    /\ phase = "env"
    /\ nops < MaxOps
    /\ nops' = nops + 1
    /\ op' = [kind |-> kind, f |-> f, d |-> d, name |-> name, pre |-> frames, r |-> r]
    /\ frames' = fs
    /\ EnvUnchanged

DoDefine ==
    \E f \in 1..Len(frames), name \in EnvNames :
        EnvStep("define", f, 0, name, define(frames, f, name, WrittenValue), Ok(Nil))

DoGet ==
    \E f \in 1..Len(frames), name \in EnvNames :
        EnvStep("get", f, 0, name, frames, get(frames, f, name))

DoGetAt ==
    \E f \in 1..Len(frames), d \in 0..Len(frames), name \in EnvNames :
        EnvStep("get_at", f, d, name, frames, get_at(frames, f, d, name))

DoAssign ==
    \E f \in 1..Len(frames), name \in EnvNames :
        LET a == assign(frames, f, name, WrittenValue)
        IN EnvStep("assign", f, 0, name, a.fs, a.r)

DoAssignAt ==
    \E f \in 1..Len(frames), d \in 0..Len(frames), name \in EnvNames :
        LET a == assign_at(frames, f, d, name, WrittenValue)
        IN EnvStep("assign_at", f, d, name, a.fs, a.r)

EnvNext == DoDefine \/ DoGet \/ DoGetAt \/ DoAssign \/ DoAssignAt

EnvSpec == EnvInit /\ [][EnvNext]_vars

(***************************************************************************)
(* C9: get(name) returns the value bound in the nearest frame of the chain *)
(* that defines name; assign(name, v) overwrites the binding in that       *)
(* nearest defining frame only and never creates a binding; when no frame  *)
(* of the chain defines name both fail with an undefined-variable error    *)
(* and every frame is left unchanged.                                      *)
(***************************************************************************)
OpNearest == NearestDefining(op.pre, op.f, op.name)

C9_GetAssignNearest ==
    /\ op.kind = "get" =>
        /\ frames = op.pre
        /\ IF OpNearest = NoFrame
           THEN op.r = Err("UndefinedVar")
           ELSE op.r = Ok(op.pre[OpNearest].values[op.name])
    /\ op.kind = "assign" =>
        IF OpNearest = NoFrame
        THEN op.r = Err("UndefinedVar") /\ frames = op.pre
        ELSE /\ op.r = Ok(Nil)
             /\ frames = [op.pre EXCEPT ![OpNearest].values[op.name] = WrittenValue]
             /\ \A g \in 1..Len(frames) :
                    DOMAIN frames[g].values = DOMAIN op.pre[g].values

\* get found the name in an enclosing frame although the current frame lacks it
C9_WitnessGet ==
    /\ op.kind = "get" /\ op.r.k = "ok"
    /\ OpNearest # op.f

\* assign overwrote an enclosing frame's binding, and another assign failed
C9_WitnessAssign ==
    /\ op.kind = "assign" /\ op.r.k = "ok"
    /\ OpNearest # op.f /\ frames # op.pre

C9_Witness == C9_WitnessGet \/ C9_WitnessAssign

(***************************************************************************)
(* C10: get_at(distance, name) and assign_at(distance, name, value) jump   *)
(* exactly `distance` enclosing links and then consult that single frame   *)
(* only: when the frame at that distance does not define name, no binding  *)
(* of a frame further out is returned or overwritten.                      *)
(***************************************************************************)
OpTarget == Ancestor(op.pre, op.f, op.d)

C10_AtSingleFrame ==
    /\ (op.kind = "get_at" /\ OpTarget # NoFrame) =>
        IF Defines(op.pre, OpTarget, op.name)
        THEN op.r = Ok(op.pre[OpTarget].values[op.name])
        ELSE op.r.k # "ok"
    /\ (op.kind = "assign_at" /\ OpTarget # NoFrame) =>
        IF Defines(op.pre, OpTarget, op.name)
        THEN frames = [op.pre EXCEPT ![OpTarget].values[op.name] = WrittenValue]
        ELSE op.r.k # "ok" /\ frames = op.pre

(***************************************************************************)
(* The Scanner (scanner.rs).  A source text is a sequence of characters,   *)
(* each a string of length one.  `start` and `current` count characters    *)
(* from 0 as in the source, so that the character at index i is            *)
(* source[i + 1] here.  Indexing the text at or beyond its end panics.     *)
(***************************************************************************)
\* the character '\0' that peek and peek_next give at the end of the text
NUL == "NUL"

is_digit(c) == c \in {"0", "1", "2", "3", "4", "5", "6", "7", "8", "9"}

is_alpha(c) ==
    c \in {"a", "b", "c", "d", "e", "f", "g", "h", "i", "j", "k", "l", "m",
           "n", "o", "p", "q", "r", "s", "t", "u", "v", "w", "x", "y", "z",
           "A", "B", "C", "D", "E", "F", "G", "H", "I", "J", "K", "L", "M",
           "N", "O", "P", "Q", "R", "S", "T", "U", "V", "W", "X", "Y", "Z", "_"}

is_alphanumeric(c) == is_alpha(c) \/ is_digit(c)

\* Scanner::new, the keywords
kw_map ==
    [text \in {"and", "class", "else", "false", "for", "fun", "if", "nil", "or",
               "print", "return", "super", "this", "true", "var", "while"} |->
        CASE text = "and" -> "And"
          [] text = "class" -> "Class"
          [] text = "else" -> "Else"
          [] text = "false" -> "False"
          [] text = "for" -> "For"
          [] text = "fun" -> "Fun"
          [] text = "if" -> "If"
          [] text = "nil" -> "Nil"
          [] text = "or" -> "Or"
          [] text = "print" -> "Print"
          [] text = "return" -> "Return"
          [] text = "super" -> "Super"
          [] text = "this" -> "This"
          [] text = "true" -> "True"
          [] text = "var" -> "Var"
          [] text = "while" -> "While"]

\* Scanner::new
Scanner_new(src, error_reporter) ==
    [source |-> src, tokens |-> <<>>, start |-> 0, current |-> 0, line |-> 1,
     error_reporter |-> error_reporter, panicked |-> FALSE]

\* tokens.rs
LiteralNone == [k |-> "None"]
LiteralString(s) == [k |-> "String", s |-> s]
LiteralNumber(n) == [k |-> "Number", n |-> n]

Token_new(token_type, lexeme, literal, line) ==
    [token_type |-> token_type, lexeme |-> lexeme, literal |-> literal, line |-> line]

\* ErrorReporter::error
ErrorReporter_error(sink, line, message) == report(sink, line, "", message)

\* the String collected from a slice of characters
RECURSIVE Collect(_)
Collect(chars) == IF chars = <<>> THEN "" ELSE Head(chars) \o Collect(Tail(chars))

\* self.source[from..to]
Slice(sc, from, to) == SubSeq(sc.source, from + 1, to)

is_at_end(sc) == sc.current >= Len(sc.source)

\* Scanner::advance; the character it returns is CharAt(sc, sc.current)
CharAt(sc, i) == sc.source[i + 1]

advance(sc) ==
    IF sc.panicked THEN sc
    ELSE IF sc.current >= Len(sc.source) THEN [sc EXCEPT !.panicked = TRUE]
    ELSE [sc EXCEPT !.current = @ + 1]

peek(sc) == IF is_at_end(sc) THEN NUL ELSE CharAt(sc, sc.current)

peek_next(sc) == IF sc.current + 1 >= Len(sc.source) THEN NUL ELSE CharAt(sc, sc.current + 1)

\* Scanner::match_char: whether it matches, and the scanner afterwards
Matches(sc, expected) == ~is_at_end(sc) /\ CharAt(sc, sc.current) = expected

match_char(sc, expected) ==
    IF Matches(sc, expected) THEN [sc EXCEPT !.current = @ + 1] ELSE sc

add_token_with_literal(sc, t, literal) ==
    IF sc.panicked THEN sc
    ELSE [sc EXCEPT !.tokens =
             Append(@, Token_new(t, Collect(Slice(sc, sc.start, sc.current)), literal, sc.line))]

add_token(sc, t) == add_token_with_literal(sc, t, LiteralNone)

\* Scanner::scan_identifier
scan_identifier(sc0) ==
    LET RECURSIVE WhileAlphanumeric(_)
        WhileAlphanumeric(sc) ==
            IF is_alphanumeric(peek(sc)) THEN WhileAlphanumeric(advance(sc)) ELSE sc
        Keyword(sc, text) ==
            add_token(sc, IF text \in DOMAIN kw_map THEN kw_map[text] ELSE "Identifier")
        Text(sc) == Keyword(sc, Collect(Slice(sc, sc.start, sc.current)))
    IN Text(WhileAlphanumeric(sc0))

\* str::parse::<f64> on digits with an optional fraction: the number as a
\* fraction, with the digits after the point as tenths, hundredths, ...
ParseF64(chars) ==
    LET DigitValue(c) == CHOOSE d \in 0..9 : ToString(d) = c
        RECURSIVE Decimal(_, _, _)
        Decimal(i, n, d) ==
            IF i > Len(chars) THEN Ratio(n, IF d = 0 THEN 1 ELSE d)
            ELSE IF chars[i] = "." THEN Decimal(i + 1, n, 1)
            ELSE Decimal(i + 1, 10 * n + DigitValue(chars[i]), 10 * d)
    IN Decimal(1, 0, 0)

\* Scanner::scan_number
scan_number(sc0) ==
    LET RECURSIVE WhileDigit(_)
        WhileDigit(sc) == IF is_digit(peek(sc)) THEN WhileDigit(advance(sc)) ELSE sc
        Fraction(sc) ==
            IF peek(sc) = "." /\ is_digit(peek_next(sc)) THEN advance(sc) ELSE sc
        NumberToken(sc) ==
            add_token_with_literal(sc, "Number",
                LiteralNumber(ParseF64(Slice(sc, sc.start, sc.current))))
    IN NumberToken(WhileDigit(Fraction(WhileDigit(sc0))))

\* Scanner::scan_string: the loop up to the closing quote or the end, the
\* report of a string that the text ends in, the closing quote, and the
\* token with the text between the quotes
scan_string(sc0) ==
    LET RECURSIVE WhileInString(_)
        WhileInString(sc) ==
            IF peek(sc) # "\"" /\ ~is_at_end(sc)
            THEN WhileInString(advance(IF peek(sc) = "\n"
                                       THEN [sc EXCEPT !.line = @ + 1] ELSE sc))
            ELSE sc
        ReportUnterminated(sc) ==
            IF is_at_end(sc)
            THEN [sc EXCEPT !.error_reporter =
                     ErrorReporter_error(@, sc.line, "Unterminated string on line {}")]
            ELSE sc
        StringToken(sc) ==
            IF sc.panicked THEN sc
            ELSE add_token_with_literal(sc, "String",
                     LiteralString(Collect(Slice(sc, sc.start + 1, sc.current - 1))))
    IN StringToken(advance(ReportUnterminated(WhileInString(sc0))))

\* Scanner::scan_token, the characters that are a token by themselves
SingleCharTokens ==
    [c \in {"(", ")", "[", "]", ":", ",", ".", "-", "+", "?", ";", "*"} |->
        CASE c = "(" -> "LeftParen"
          [] c = ")" -> "RightParen"
          [] c = "[" -> "LeftBrace"
          [] c = "]" -> "RightBrace"
          [] c = ":" -> "Colon"
          [] c = "," -> "Comma"
          [] c = "." -> "Dot"
          [] c = "-" -> "Minus"
          [] c = "+" -> "Plus"
          [] c = "?" -> "QuestionMark"
          [] c = ";" -> "SemiColon"
          [] c = "*" -> "Star"]

\* Scanner::scan_token
scan_token(sc0) ==
    LET \* a character that '=' may follow
        OneOrTwo(sc, two, one) ==
            IF Matches(sc, "=") THEN add_token(match_char(sc, "="), two)
            ELSE add_token(sc, one)
        \* '/' '/': a comment goes on until the end of the line
        RECURSIVE WhileInLine(_)
        WhileInLine(sc) ==
            IF peek(sc) # "\n" /\ ~is_at_end(sc) THEN WhileInLine(advance(sc)) ELSE sc
        \* '/' '*': the loop up to the closing */ or the end, the report of a
        \* comment that the text ends in, and the two characters of */
        RECURSIVE WhileInComment(_)
        WhileInComment(sc) ==
            IF ~is_at_end(sc) /\ (peek(sc) # "*" \/ peek_next(sc) # "/")
            THEN WhileInComment(advance(IF peek(sc) = "\n"
                                        THEN [sc EXCEPT !.line = @ + 1] ELSE sc))
            ELSE sc
        ReportUnterminated(sc, start_line) ==
            IF is_at_end(sc)
            THEN [sc EXCEPT !.error_reporter =
                     ErrorReporter_error(@, start_line,
                                         "Unterminated multi-line comment on line {}")]
            ELSE sc
        MultiLineComment(sc) ==
            advance(advance(ReportUnterminated(WhileInComment(sc), sc.line)))
        \* match c, after advance gave the character c
        ScanChar(sc, c) ==
            CASE c \in DOMAIN SingleCharTokens -> add_token(sc, SingleCharTokens[c])
              [] c = "!" -> OneOrTwo(sc, "BangEqual", "Bang")
              [] c = "=" -> OneOrTwo(sc, "EqualEqual", "Equal")
              [] c = "<" -> OneOrTwo(sc, "LessEqual", "Less")
              [] c = ">" -> OneOrTwo(sc, "GreaterEqual", "Greater")
              [] c = "/" ->
                    IF Matches(sc, "/") THEN WhileInLine(match_char(sc, "/"))
                    ELSE IF Matches(sc, "*") THEN MultiLineComment(match_char(sc, "*"))
                    ELSE add_token(sc, "Slash")
              [] c \in {" ", "\r", "\t"} -> sc
              [] c = "\n" -> [sc EXCEPT !.line = @ + 1]
              [] c = "\"" -> scan_string(sc)
              [] is_digit(c) -> scan_number(sc)
              [] is_alpha(c) -> scan_identifier(sc)
              [] OTHER ->
                    [sc EXCEPT !.error_reporter =
                        ErrorReporter_error(@, sc.line, "Unexpected token at line {}")]
    IN IF is_at_end(sc0) THEN [sc0 EXCEPT !.panicked = TRUE]
       ELSE ScanChar(advance(sc0), CharAt(sc0, sc0.current))

\* Scanner::scan_tokens, after the loop: the end-of-input token
PushEof(sc) ==
    [sc EXCEPT !.tokens = Append(@, Token_new("Eof", "", LiteralNone, sc.line))]

(***************************************************************************)
(* The source texts: every text of at most MaxSource characters over       *)
(* SourceChars.                                                            *)
(***************************************************************************)
MaxSource == 3

SourceChars == {"\"", "/", "*", "a", "1", ".", "@", "\n", "="}

Sources == UNION {[1..k -> SourceChars] : k \in 0..MaxSource}

(***************************************************************************)
(* Scanner::scan_tokens as a state machine: one step per turn of its loop, *)
(* and one for the end-of-input token.                                     *)
(***************************************************************************)
ScanIdle ==
    /\ prog = <<>> /\ idx = 0 /\ locals = <<>> /\ frames = <<>> /\ refs = <<>> /\ env = 1
    /\ out = <<>> /\ hist = <<>> /\ op = NoOp /\ nops = 0
    /\ parser = NoParser

ScanUnchanged ==
    UNCHANGED <<prog, idx, locals, frames, refs, env, out, hist, op, nops,
                had_runtime_error, parser>>

ScanInit ==
    /\ phase = "scan"
    /\ scanner \in {Scanner_new(src, NewSink) : src \in Sources}
    /\ errors_collected = <<>>
    /\ had_error = FALSE
    /\ had_runtime_error = FALSE
    /\ ScanIdle

\* the scanner after a step, and the sink it reported to
InstallScanner(sc) ==
    /\ scanner' = sc
    /\ errors_collected' = sc.error_reporter.errors_collected
    /\ had_error' = sc.error_reporter.had_error
    /\ ScanUnchanged

ScanToken ==
    /\ phase = "scan"
    /\ ~is_at_end(scanner)
    /\ InstallScanner(scan_token([scanner EXCEPT !.start = scanner.current]))
    /\ phase' = IF scanner'.panicked THEN "panicked" ELSE "scan"

ScanEnd ==
    /\ phase = "scan"
    /\ is_at_end(scanner)
    /\ InstallScanner(PushEof(scanner))
    /\ phase' = "scanned"

ScanNext == ScanToken \/ ScanEnd

ScanSpec == ScanInit /\ [][ScanNext]_vars

(***************************************************************************)
(* C19: for every source text scan_tokens returns normally: the scanner    *)
(* never panics, and when it is done it has read the text to its end and   *)
(* the tokens end with the one and only end-of-input token.  A string or a *)
(* block comment that the text ends in, and a character that starts no     *)
(* token, are reported to the sink and the scanning goes on: a text of     *)
(* unknown characters alone gives one report for each of them.             *)
(***************************************************************************)
EndsWithOnlyEof(tokens) ==
    /\ tokens # <<>>
    /\ tokens[Len(tokens)].token_type = "Eof"
    /\ \A i \in 1..(Len(tokens) - 1) : tokens[i].token_type # "Eof"

\* the characters of the text that start no token
UnknownChars(src) == {i \in 1..Len(src) : src[i] = "@"}

OnlyUnknownChars(src) == \A i \in 1..Len(src) : src[i] \in {"@", "\n"}

C19_ScanTokensReturns ==
    /\ phase # "panicked"
    /\ phase = "scanned" =>
          /\ scanner.current = Len(scanner.source)
          /\ EndsWithOnlyEof(scanner.tokens)
          /\ OnlyUnknownChars(scanner.source) =>
                Len(errors_collected) = Cardinality(UnknownChars(scanner.source))

(***************************************************************************)
(* The parser on tokens (parser.rs).  A parsing function takes the Parser  *)
(* and gives R(parser afterwards, Ok(node) or Err(ParseError)).  A node    *)
(* made from a token has the position of that token as its identity.       *)
(***************************************************************************)
\* Parser::new
Parser_new(tokens, error_reporter) ==
    [tokens |-> tokens, current |-> 0, loop_depth |-> 0,
     error_reporter |-> error_reporter, panicked |-> FALSE]

\* ParseError, the text of each variant
ParseErrorMessage(e) ==
    CASE e = "BreakOutsideOfLoop" -> "Break statement outside of a loop"
      [] e = "CallExpectPropertyName" -> "Expect property name after '.'"
      [] e = "CallRightParenExpected" -> "Expect ')' after arguments"
      [] e = "CallTooManyArgs" -> "Can't have > 255 arguments"
      [] e = "ClassExpectIdentifier" -> "Expect class name"
      [] e = "ClassExpectLeftBrace" -> "Expect '{' after class name"
      [] e = "ClassExpectRightBrace" -> "Expect '}' after class definition"
      [] e = "ClassExpectSuperClass" -> "Expect superclass name"
      [] e = "ColonExpectedInTernary" -> "Expect ':' in ternary operator"
      [] e = "ExpressionExpected" -> "Expect expression"
      [] e = "ForStmtLeftParenExpected" -> "Expect '(' after for"
      [] e = "ForStmtRightParenExpected" -> "Expect ')' in for statement"
      [] e = "ForStmtSemiColonExpected" -> "Expect ';' in for statement after loop condition"
      [] e = "FunctionExpectBlockOpen" -> "Expect '{' before function body"
      [] e = "FunctionExpectIdentifier" -> "Expect function name"
      [] e = "FunctionExpectLeftParen" -> "Expect '(' after function name"
      [] e = "FunctionExpectParamName" -> "Expect parameter name"
      [] e = "FunctionExpectRightParen" -> "Expect ')' after function parameters"
      [] e = "FunctionTooManyArgs" -> "Too many arguments in function declaration"
      [] e = "IfStmtLeftParenExpected" -> "Expect '(' after if"
      [] e = "IfStmtRightParenExpected" -> "Expect ')' in if statement"
      [] e = "InvalidAssignmentTarget" -> "Invalid assignment target"
      [] e = "RightBraceExpected" -> "Expect '}' at end of block"
      [] e = "RightParenMissing" -> "Expect ')' after expression"
      [] e = "SemiColonExpected" -> "Expect ';' after statement"
      [] e = "SuperExpectDot" -> "Expect '.' after super"
      [] e = "SuperExpectMethodName" -> "Expect superclass method name"
      [] e = "VariableNameExpected" -> "Expect n name"
      [] e = "WhileStmtLeftParenExpected" -> "Expect '(' after while"
      [] e = "WhileStmtRightParenExpected" -> "Expect ')' in while statement"

\* ErrorReporter::token_error
token_error(sink, t, msg) ==
    IF t.token_type = "Eof" THEN report(sink, t.line, " at end", msg)
    ELSE report(sink, t.line, " at '" \o t.lexeme \o "'", msg)

\* Parser::peek, Parser::previous: current counts the tokens consumed
Parser_peek(p) == p.tokens[p.current + 1]

Parser_previous(p) == p.tokens[p.current]

Parser_is_at_end(p) == Parser_peek(p).token_type = "Eof"

check(p, tt) == ~Parser_is_at_end(p) /\ Parser_peek(p).token_type = tt

\* Parser::match_any, whether one of the types matches; the parser
\* afterwards is Parser_advance(p), the token matched Parser_peek(p)
match_any(p, token_types) == \E tt \in token_types : check(p, tt)

\* Parser::advance; the token it returns is Parser_previous of the result,
\* and there is none before the first token
Parser_advance(p) ==
    LET stepped == IF Parser_is_at_end(p) THEN p ELSE [p EXCEPT !.current = @ + 1]
    IN IF p.panicked THEN p
       ELSE IF stepped.current = 0 THEN [p EXCEPT !.panicked = TRUE]
       ELSE stepped

\* Parser::error_at, Parser::error: the parser after the report
error_at(p, token, e) ==
    [p EXCEPT !.error_reporter = token_error(@, token, ParseErrorMessage(e))]

Parser_error(p, e) == error_at(p, Parser_peek(p), e)

\* Err(self.error(e)), and whether a result is an Err, which the ? operator
\* returns at once
Fail(p, e) == R(Parser_error(p, e), Err(e))

Failed(c) == c.r.k = "err"

\* Parser::consume: Ok(the token consumed)
consume(p, tt, e) ==
    IF check(p, tt) THEN R(Parser_advance(p), Ok(Parser_peek(p))) ELSE Fail(p, e)

\* Parser::synchronize
synchronize(p) ==
    LET RECURSIVE SkipToBoundary(_)
        SkipToBoundary(q) ==
            IF q.panicked \/ Parser_is_at_end(q) THEN q
            ELSE IF Parser_previous(q).token_type = "SemiColon" THEN q
            ELSE IF Parser_peek(q).token_type \in
                       {"Class", "For", "Fun", "If", "Print", "Return", "Var", "While"}
            THEN q
            ELSE SkipToBoundary(Parser_advance(q))
    IN SkipToBoundary(Parser_advance(p))

\* TryFrom<&TokenLiteral> for LoxValue, on the literal of a token
LiteralValue(literal) ==
    CASE literal.k = "Number" -> literal.n
      [] literal.k = "String" -> String(literal.s)
      [] OTHER -> Nil

\* Expr::Super(SuperExpr { keyword, method })
SuperExpr(id, method) == [t |-> "Super", id |-> id, method |-> method]

\* finish_call refuses the argument after this many, function() the
\* parameter after more than this many
CallArgsLimit == 255
ParamsLimit == 255

\* a loop that is not left yet, with what it has collected; and k with
\* 2^k >= n, so that a loop of at most n turns is done after 2^k
Looping(v) == [k |-> "loop", v |-> v, e |-> "none"]

StillLooping(c) == c.r.k = "loop"

RECURSIVE Doublings(_)
Doublings(n) == IF n <= 1 THEN 0 ELSE 1 + Doublings((n + 1) \div 2)

RECURSIVE expression(_)

\* no operator came before the first operand of an expression
NoOperator == ""

\* the operand just parsed, the right side of a node under the operator
\* that came before it
BinaryNode(left, operator, right) ==
    IF operator = NoOperator THEN right ELSE BinaryExpr(left, operator, right)

LogicalNode(left, operator, right) ==
    IF operator = NoOperator THEN right ELSE LogicalExpr(left, operator, right)

\* Parser::primary
SuperNode(c, id) ==
    CASE Failed(c) -> c
      [] OTHER -> R(c.st, Ok(SuperExpr(id, c.r.v.lexeme)))

SuperMethod(c, id) ==
    CASE Failed(c) -> c
      [] OTHER -> SuperNode(consume(c.st, "Identifier", "SuperExpectMethodName"), id)

GroupingNode(c, e) ==
    CASE Failed(c) -> c
      [] OTHER -> R(c.st, Ok(Grouping(e)))

GroupingClose(c) ==
    CASE Failed(c) -> c
      [] OTHER -> GroupingNode(consume(c.st, "RightParen", "RightParenMissing"), c.r.v)

primary(p) ==
    CASE check(p, "False") -> R(Parser_advance(p), Ok(Literal(Boolean(FALSE))))
      [] check(p, "True") -> R(Parser_advance(p), Ok(Literal(Boolean(TRUE))))
      [] check(p, "Nil") -> R(Parser_advance(p), Ok(Literal(Nil)))
      [] match_any(p, {"Number", "String"}) ->
            R(Parser_advance(p), Ok(Literal(LiteralValue(Parser_peek(p).literal))))
      [] check(p, "Super") ->
            SuperMethod(consume(Parser_advance(p), "Dot", "SuperExpectDot"), p.current + 1)
      [] check(p, "This") -> R(Parser_advance(p), Ok(This(p.current + 1)))
      [] check(p, "Identifier") ->
            R(Parser_advance(p), Ok(Variable(p.current + 1, Parser_peek(p).lexeme)))
      [] check(p, "LeftParen") -> GroupingClose(expression(Parser_advance(p)))
      [] OTHER -> Fail(p, "ExpressionExpected")

\* Parser::finish_call.  One turn of its loop, on the parser and the
\* arguments pushed so far: the loop goes on after a comma, and is left with
\* the arguments or with an error
NextArgument(e, arguments) ==
    CASE Failed(e) -> e
      [] check(e.st, "Comma") -> R(Parser_advance(e.st), Looping(Append(arguments, e.r.v)))
      [] OTHER -> R(e.st, Ok(Append(arguments, e.r.v)))

ArgumentsTurn(c) ==
    CASE Len(c.r.v) >= CallArgsLimit ->
            R(error_at(c.st, Parser_peek(c.st), "CallTooManyArgs"), Err("CallTooManyArgs"))
      [] OTHER -> NextArgument(expression(c.st), c.r.v)

\* the loop: 2^k turns or fewer, none once the loop is left
RECURSIVE ArgumentsLoop(_, _)
ArgumentsLoop(k, c) ==
    CASE ~StillLooping(c) -> c
      [] k = 0 -> ArgumentsTurn(c)
      [] OTHER -> ArgumentsLoop(k - 1, ArgumentsLoop(k - 1, c))

\* the loop cannot take more turns than the limit lets it
Arguments(q, arguments) ==
    ArgumentsLoop(Doublings(CallArgsLimit + 1), R(q, Looping(arguments)))

CallNode(c, callee, arguments) ==
    CASE Failed(c) -> c
      [] OTHER -> R(c.st, Ok(CallExpr(callee, arguments)))

CallClose(c, callee) ==
    CASE Failed(c) -> c
      [] OTHER -> CallNode(consume(c.st, "RightParen", "CallRightParenExpected"),
                           callee, c.r.v)

finish_call(p, callee) ==
    CASE check(p, "RightParen") -> CallClose(R(p, Ok(<<>>)), callee)
      [] OTHER -> CallClose(Arguments(p, <<>>), callee)

\* Parser::call
GetNode(c, object) ==
    CASE Failed(c) -> c
      [] OTHER -> R(c.st, Ok(GetExpr(object, c.r.v.lexeme)))

RECURSIVE CallSuffixes(_)
CallSuffixes(c) ==
    CASE Failed(c) -> c
      [] check(c.st, "LeftParen") ->
            CallSuffixes(finish_call(Parser_advance(c.st), c.r.v))
      [] check(c.st, "Dot") ->
            CallSuffixes(GetNode(consume(Parser_advance(c.st), "Identifier",
                                         "CallExpectPropertyName"), c.r.v))
      [] OTHER -> c

call(p) == CallSuffixes(primary(p))

\* Parser::unary
UnaryNode(c, operator) ==
    CASE Failed(c) -> c
      [] OTHER -> R(c.st, Ok(UnaryExpr(operator, c.r.v)))

RECURSIVE unary(_)
unary(p) ==
    CASE match_any(p, {"Bang", "Minus"}) ->
            UnaryNode(unary(Parser_advance(p)), Parser_peek(p).lexeme)
      [] OTHER -> call(p)

\* Parser::factor: an operand, made the right side of a node when an
\* operator came before it, and again while an operator follows; and so in
\* term, comparison, equality, and, or and expression_list
RECURSIVE FactorOperand(_, _, _)
FactorRest(c, left, operator) ==
    CASE Failed(c) -> c
      [] match_any(c.st, {"Slash", "Star"}) ->
            FactorOperand(Parser_advance(c.st), BinaryNode(left, operator, c.r.v),
                          Parser_peek(c.st).lexeme)
      [] OTHER -> R(c.st, Ok(BinaryNode(left, operator, c.r.v)))

FactorOperand(q, left, operator) == FactorRest(unary(q), left, operator)

factor(p) == FactorOperand(p, NoStmt, NoOperator)

\* Parser::term
RECURSIVE TermOperand(_, _, _)
TermRest(c, left, operator) ==
    CASE Failed(c) -> c
      [] match_any(c.st, {"Minus", "Plus"}) ->
            TermOperand(Parser_advance(c.st), BinaryNode(left, operator, c.r.v),
                        Parser_peek(c.st).lexeme)
      [] OTHER -> R(c.st, Ok(BinaryNode(left, operator, c.r.v)))

TermOperand(q, left, operator) == TermRest(factor(q), left, operator)

term(p) == TermOperand(p, NoStmt, NoOperator)

\* Parser::comparison
RECURSIVE ComparisonOperand(_, _, _)
ComparisonRest(c, left, operator) ==
    CASE Failed(c) -> c
      [] match_any(c.st, {"Greater", "GreaterEqual", "Less", "LessEqual"}) ->
            ComparisonOperand(Parser_advance(c.st), BinaryNode(left, operator, c.r.v),
                              Parser_peek(c.st).lexeme)
      [] OTHER -> R(c.st, Ok(BinaryNode(left, operator, c.r.v)))

ComparisonOperand(q, left, operator) == ComparisonRest(term(q), left, operator)

comparison(p) == ComparisonOperand(p, NoStmt, NoOperator)

\* Parser::equality
RECURSIVE EqualityOperand(_, _, _)
EqualityRest(c, left, operator) ==
    CASE Failed(c) -> c
      [] match_any(c.st, {"BangEqual", "EqualEqual"}) ->
            EqualityOperand(Parser_advance(c.st), BinaryNode(left, operator, c.r.v),
                            Parser_peek(c.st).lexeme)
      [] OTHER -> R(c.st, Ok(BinaryNode(left, operator, c.r.v)))

EqualityOperand(q, left, operator) == EqualityRest(comparison(q), left, operator)

equality(p) == EqualityOperand(p, NoStmt, NoOperator)

\* Parser::and
RECURSIVE AndOperand(_, _, _)
AndRest(c, left, operator) ==
    CASE Failed(c) -> c
      [] check(c.st, "And") ->
            AndOperand(Parser_advance(c.st), LogicalNode(left, operator, c.r.v),
                       Parser_peek(c.st).lexeme)
      [] OTHER -> R(c.st, Ok(LogicalNode(left, operator, c.r.v)))

AndOperand(q, left, operator) == AndRest(equality(q), left, operator)

and(p) == AndOperand(p, NoStmt, NoOperator)

\* Parser::or
RECURSIVE OrOperand(_, _, _)
OrRest(c, left, operator) ==
    CASE Failed(c) -> c
      [] check(c.st, "Or") ->
            OrOperand(Parser_advance(c.st), LogicalNode(left, operator, c.r.v),
                      Parser_peek(c.st).lexeme)
      [] OTHER -> R(c.st, Ok(LogicalNode(left, operator, c.r.v)))

OrOperand(q, left, operator) == OrRest(and(q), left, operator)

or(p) == OrOperand(p, NoStmt, NoOperator)

\* Parser::assignment
AssignNode_unwrapping(c, expr, eq_token) ==
    CASE Failed(c) -> c
      [] expr.t = "Variable" -> R(c.st, Ok(AssignExpr(expr.id, expr.name, c.r.v)))
      [] expr.t = "Get" -> R(c.st, Ok(SetExpr(expr.object, expr.name, c.r.v)))
      [] expr.t = "Grouping" /\ expr.e.t = "Variable" ->
            R(c.st, Ok(AssignExpr(expr.e.id, expr.e.name, c.r.v)))
      [] OTHER -> R(error_at(c.st, eq_token, "InvalidAssignmentTarget"),
                    Err("InvalidAssignmentTarget"))

AssignNode(c, expr, eq_token) ==
    CASE Failed(c) -> c
      [] expr.t = "Variable" -> R(c.st, Ok(AssignExpr(expr.id, expr.name, c.r.v)))
      [] expr.t = "Get" -> R(c.st, Ok(SetExpr(expr.object, expr.name, c.r.v)))
      [] OTHER -> R(error_at(c.st, eq_token, "InvalidAssignmentTarget"),
                    Err("InvalidAssignmentTarget"))

RECURSIVE assignment(_)
AssignmentRest(c) ==
    CASE Failed(c) -> c
      [] check(c.st, "Equal") ->
            AssignNode(assignment(Parser_advance(c.st)), c.r.v, Parser_peek(c.st))
      [] OTHER -> c

assignment(p) == AssignmentRest(or(p))

\* Parser::expression
expression(p) == assignment(p)

\* Parser::ternary_conditional
TernaryFalse(c, expr, true_expr, colon_op) ==
    CASE Failed(c) -> c
      [] OTHER -> R(c.st, Ok(BinaryExpr(expr, "?",
                                        BinaryExpr(true_expr, colon_op.lexeme, c.r.v))))

TernaryColon(c, expr, true_expr) ==
    CASE Failed(c) -> c
      [] OTHER -> TernaryFalse(expression(c.st), expr, true_expr, c.r.v)

TernaryTrue(c, expr) ==
    CASE Failed(c) -> c
      [] OTHER -> TernaryColon(consume(c.st, "Colon", "ColonExpectedInTernary"),
                               expr, c.r.v)

RECURSIVE TernaryRest(_)
TernaryRest(c) ==
    CASE Failed(c) -> c
      [] check(c.st, "QuestionMark") ->
            TernaryRest(TernaryTrue(expression(Parser_advance(c.st)), c.r.v))
      [] OTHER -> c

ternary_conditional(p) == TernaryRest(expression(p))

\* Parser::expression_list
RECURSIVE ExpressionListOperand(_, _, _)
ExpressionListRest(c, left, operator) ==
    CASE Failed(c) -> c
      [] check(c.st, "Comma") ->
            ExpressionListOperand(Parser_advance(c.st), BinaryNode(left, operator, c.r.v),
                                  Parser_peek(c.st).lexeme)
      [] OTHER -> R(c.st, Ok(BinaryNode(left, operator, c.r.v)))

ExpressionListOperand(q, left, operator) ==
    ExpressionListRest(ternary_conditional(q), left, operator)

expression_list(p) == ExpressionListOperand(p, NoStmt, NoOperator)

RECURSIVE declaration(_)
RECURSIVE statement(_)

\* Parser::block
StmtsNode(c, stmts) ==
    CASE Failed(c) -> c
      [] OTHER -> R(c.st, Ok(stmts))

RECURSIVE BlockItems(_, _)
NextBlockItem(c, stmts) ==
    CASE Failed(c) -> c
      [] OTHER -> BlockItems(c.st, Append(stmts, c.r.v))

BlockItems(q, stmts) ==
    CASE ~check(q, "RightBrace") /\ ~Parser_is_at_end(q) ->
            NextBlockItem(declaration(q), stmts)
      [] OTHER -> StmtsNode(consume(q, "RightBrace", "RightBraceExpected"), stmts)

block(p) == BlockItems(p, <<>>)

\* Parser::function.  One turn of the parameter loop, on the parser and the
\* parameters pushed so far
NextParam(n, params) ==
    CASE Failed(n) -> n
      [] check(n.st, "Comma") ->
            R(Parser_advance(n.st), Looping(Append(params, n.r.v.lexeme)))
      [] OTHER -> R(n.st, Ok(Append(params, n.r.v.lexeme)))

ParamsTurn(c) ==
    CASE Len(c.r.v) > ParamsLimit ->
            R(error_at(c.st, Parser_peek(c.st), "FunctionTooManyArgs"),
              Err("FunctionTooManyArgs"))
      [] OTHER -> NextParam(consume(c.st, "Identifier", "FunctionExpectParamName"), c.r.v)

RECURSIVE ParamsLoop(_, _)
ParamsLoop(k, c) ==
    CASE ~StillLooping(c) -> c
      [] k = 0 -> ParamsTurn(c)
      [] OTHER -> ParamsLoop(k - 1, ParamsLoop(k - 1, c))

Params(q, params) == ParamsLoop(Doublings(ParamsLimit + 2), R(q, Looping(params)))

FunctionNode(c, name, params) ==
    CASE Failed(c) -> c
      [] OTHER -> R(c.st, Ok(FunctionStmt(name, params, c.r.v)))

FunctionOpen(c, name, params) ==
    CASE Failed(c) -> c
      [] OTHER -> FunctionNode(block(c.st), name, params)

FunctionClose(c, name, params) ==
    CASE Failed(c) -> c
      [] OTHER -> FunctionOpen(consume(c.st, "LeftBrace", "FunctionExpectBlockOpen"),
                               name, params)

FunctionParams(c, name) ==
    CASE Failed(c) -> c
      [] OTHER -> FunctionClose(consume(c.st, "RightParen", "FunctionExpectRightParen"),
                                name, c.r.v)

FunctionLeftParen(c, name) ==
    CASE Failed(c) -> c
      [] check(c.st, "RightParen") -> FunctionParams(R(c.st, Ok(<<>>)), name)
      [] OTHER -> FunctionParams(Params(c.st, <<>>), name)

FunctionName(c) ==
    CASE Failed(c) -> c
      [] OTHER -> FunctionLeftParen(consume(c.st, "LeftParen", "FunctionExpectLeftParen"),
                                    c.r.v.lexeme)

function(p) == FunctionName(consume(p, "Identifier", "FunctionExpectIdentifier"))

\* Parser::class_declaration
RECURSIVE Methods(_, _, _, _)
Methods(q, name, superclass, methods) ==
    LET ClassNode(c) ==
            IF Failed(c) THEN c ELSE R(c.st, Ok(ClassStmt(name, superclass, methods)))
        NextMethod(c) ==
            IF Failed(c) THEN c
            ELSE Methods(c.st, name, superclass, Append(methods, c.r.v))
    IN IF ~check(q, "RightBrace") /\ ~Parser_is_at_end(q)
       THEN NextMethod(function(q))
       ELSE ClassNode(consume(q, "RightBrace", "ClassExpectRightBrace"))

class_declaration(p) ==
    LET Open(c, name, superclass) ==
            IF Failed(c) THEN c ELSE Methods(c.st, name, superclass, <<>>)
        \* Some(Expr::Variable(self.previous())) after '<', or None
        Superclass(c) ==
            IF Failed(c) THEN c ELSE R(c.st, Ok(Variable(c.st.current, c.r.v.lexeme)))
        LeftBrace(c, name) ==
            IF Failed(c) THEN c
            ELSE Open(consume(c.st, "LeftBrace", "ClassExpectLeftBrace"), name, c.r.v)
        Name(c) ==
            IF Failed(c) THEN c
            ELSE LeftBrace(IF check(c.st, "Less")
                           THEN Superclass(consume(Parser_advance(c.st), "Identifier",
                                                   "ClassExpectSuperClass"))
                           ELSE R(c.st, Ok(NoStmt)), c.r.v.lexeme)
    IN Name(consume(p, "Identifier", "ClassExpectIdentifier"))

\* Parser::var_declaration
var_declaration(p) ==
    LET VarNode(c, name, initializer) ==
            IF Failed(c) THEN c ELSE R(c.st, Ok(VarStmt(name, initializer)))
        Initializer(c, name) ==
            IF Failed(c) THEN c
            ELSE VarNode(consume(c.st, "SemiColon", "SemiColonExpected"), name, c.r.v)
        Name(c) ==
            IF Failed(c) THEN c
            ELSE Initializer(IF check(c.st, "Equal") THEN expression(Parser_advance(c.st))
                             ELSE R(c.st, Ok(Literal(Nil))), c.r.v.lexeme)
    IN Name(consume(p, "Identifier", "VariableNameExpected"))

\* the statement that the ';' consumed in c ends
StmtNode(c, stmt) ==
    CASE Failed(c) -> c
      [] OTHER -> R(c.st, Ok(stmt))

\* Parser::break_statement
break_statement(p) ==
    IF p.loop_depth = 0 THEN Fail(p, "BreakOutsideOfLoop")
    ELSE StmtNode(consume(p, "SemiColon", "SemiColonExpected"), BreakStmt)

\* Parser::print_statement
PrintNode(c) ==
    CASE Failed(c) -> c
      [] OTHER -> StmtNode(consume(c.st, "SemiColon", "SemiColonExpected"), PrintStmt(c.r.v))

print_statement(p) == PrintNode(expression_list(p))

\* Parser::expression_statement
ExpressionNode(c) ==
    CASE Failed(c) -> c
      [] OTHER -> StmtNode(consume(c.st, "SemiColon", "SemiColonExpected"),
                           ExpressionStmt(c.r.v))

expression_statement(p) == ExpressionNode(expression_list(p))

\* Parser::return_statement
return_statement(p) ==
    LET Value(c) ==
            IF Failed(c) THEN c
            ELSE StmtNode(consume(c.st, "SemiColon", "SemiColonExpected"), ReturnStmt(c.r.v))
    IN Value(IF ~check(p, "SemiColon") THEN expression_list(p)
             ELSE R(p, Ok(Literal(Nil))))

\* Parser::while_statement
while_statement(p) ==
    LET WhileNode(c, condition) ==
            IF Failed(c) THEN c ELSE R(c.st, Ok(WhileStmt(condition, c.r.v)))
        Body(c, condition) ==
            IF Failed(c) THEN c ELSE WhileNode(statement(c.st), condition)
        Condition(c) ==
            IF Failed(c) THEN c
            ELSE Body(consume(c.st, "RightParen", "WhileStmtRightParenExpected"), c.r.v)
        LeftParen(c) == IF Failed(c) THEN c ELSE Condition(expression_list(c.st))
    IN LeftParen(consume(p, "LeftParen", "WhileStmtLeftParenExpected"))

\* Parser::if_statement
if_statement(p) ==
    LET IfNode(c, condition, then_branch) ==
            IF Failed(c) THEN c ELSE R(c.st, Ok(IfStmt(condition, then_branch, c.r.v)))
        ElseBranch(c, condition) ==
            IF Failed(c) THEN c
            ELSE IfNode(IF check(c.st, "Else") THEN statement(Parser_advance(c.st))
                        ELSE R(c.st, Ok(NoStmt)), condition, c.r.v)
        ThenBranch(c, condition) == IF Failed(c) THEN c ELSE ElseBranch(statement(c.st), condition)
        Condition(c) ==
            IF Failed(c) THEN c
            ELSE ThenBranch(consume(c.st, "RightParen", "IfStmtRightParenExpected"), c.r.v)
        LeftParen(c) == IF Failed(c) THEN c ELSE Condition(expression_list(c.st))
    IN LeftParen(consume(p, "LeftParen", "IfStmtLeftParenExpected"))

\* Parser::for_statement: the loop as a while statement, in a block after
\* the initializer and with the increment after the body; NoStmt is None
for_statement(p) ==
    LET Desugar(initializer, condition, increment, body) ==
            LET stepped == IF increment # NoStmt
                           THEN BlockStmt(<<body, ExpressionStmt(increment)>>)
                           ELSE body
            IN IF initializer # NoStmt
               THEN BlockStmt(<<initializer, WhileStmt(condition, stepped)>>)
               ELSE WhileStmt(condition, stepped)
        ForNode(c, initializer, condition, increment) ==
            IF Failed(c) THEN c
            ELSE R(c.st, Ok(Desugar(initializer, condition, increment, c.r.v)))
        Body(c, initializer, condition, increment) ==
            IF Failed(c) THEN c
            ELSE ForNode(statement(c.st), initializer, condition, increment)
        Increment(c, initializer, condition) ==
            IF Failed(c) THEN c
            ELSE Body(consume(c.st, "RightParen", "ForStmtRightParenExpected"),
                      initializer, condition, c.r.v)
        SemiColon(c, initializer, condition) ==
            IF Failed(c) THEN c
            ELSE Increment(IF ~check(c.st, "RightParen") THEN expression(c.st)
                           ELSE R(c.st, Ok(NoStmt)), initializer, condition)
        Condition(c, initializer) ==
            IF Failed(c) THEN c
            ELSE SemiColon(consume(c.st, "SemiColon", "ForStmtSemiColonExpected"),
                           initializer, c.r.v)
        Initializer(c) ==
            IF Failed(c) THEN c
            ELSE Condition(IF ~check(c.st, "SemiColon") THEN expression(c.st)
                           ELSE R(c.st, Ok(Literal(Boolean(TRUE)))), c.r.v)
        LeftParen(c) ==
            IF Failed(c) THEN c
            ELSE Initializer(
                     IF check(c.st, "SemiColon") THEN R(Parser_advance(c.st), Ok(NoStmt))
                     ELSE IF check(c.st, "Var") THEN var_declaration(Parser_advance(c.st))
                     ELSE expression_statement(c.st))
    IN LeftParen(consume(p, "LeftParen", "ForStmtLeftParenExpected"))

\* Parser::statement
InLoop(q) == [q EXCEPT !.loop_depth = @ + 1]

LoopParsed(c) == R([c.st EXCEPT !.loop_depth = @ - 1], c.r)

BlockNode(c) ==
    CASE Failed(c) -> c
      [] OTHER -> R(c.st, Ok(BlockStmt(c.r.v)))

statement(p) ==
    CASE check(p, "Break") -> break_statement(Parser_advance(p))
      [] check(p, "For") -> LoopParsed(for_statement(InLoop(Parser_advance(p))))
      [] check(p, "If") -> if_statement(Parser_advance(p))
      [] check(p, "Print") -> print_statement(Parser_advance(p))
      [] check(p, "Return") -> return_statement(Parser_advance(p))
      [] check(p, "While") -> LoopParsed(while_statement(InLoop(Parser_advance(p))))
      [] check(p, "LeftBrace") -> BlockNode(block(Parser_advance(p)))
      [] OTHER -> expression_statement(p)

\* Parser::declaration.  The result of function is unwrapped with ? before
\* the check of the result, so a failed function declaration returns without
\* a call of synchronize
Synchronized_never(c) == c

Synchronized(c) ==
    CASE Failed(c) -> R(synchronize(c.st), c.r)
      [] OTHER -> c

declaration(p) ==
    CASE check(p, "Class") -> Synchronized(class_declaration(Parser_advance(p)))
      [] check(p, "Fun") -> function(Parser_advance(p))
      [] check(p, "Var") -> Synchronized(var_declaration(Parser_advance(p)))
      [] OTHER -> Synchronized(statement(p))

(***************************************************************************)
(* The source texts of FrontSpec: at most MaxPieces pieces of program      *)
(* text, one after the other.  A block is written with the braces of the   *)
(* language, and with the brackets that Scanner::scan_token makes brace    *)
(* tokens of.                                                              *)
(***************************************************************************)
MaxPieces == 4

\* break;
BreakPiece == <<"b", "r", "e", "a", "k", ";", " ">>

\* while (true)
WhilePiece == <<"w", "h", "i", "l", "e", " ", "(", "t", "r", "u", "e", ")", " ">>

\* fun f() {   and   fun f() [
FunPiece(brace) == <<"f", "u", "n", " ", "f", "(", ")", " ", brace, " ">>

\* }   and   ]
ClosePiece(brace) == <<brace, " ">>

Pieces ==
    {BreakPiece, WhilePiece, FunPiece("{"), ClosePiece("}"), FunPiece("["), ClosePiece("]")}

RECURSIVE Join(_)
Join(texts) == IF texts = <<>> THEN <<>> ELSE Head(texts) \o Join(Tail(texts))

FrontSources == {Join(ps) : ps \in UNION {[1..k -> Pieces] : k \in 0..MaxPieces}}

(***************************************************************************)
(* FrontSpec: run() of main.rs up to the parse result.  The scanner scans  *)
(* the text (ScanToken, ScanEnd), a Parser is made of the tokens and the   *)
(* same sink, and parse_stmts loops over declaration() until the           *)
(* end-of-input token, keeping the statements that parsed in prog.         *)
(*   phase   "scan", "scanned": as in ScanSpec                             *)
(*           "parse":  parse_stmts is in its loop                          *)
(*           "parsed": parse_stmts has returned prog                       *)
(***************************************************************************)
FrontInit ==
    /\ phase = "scan"
    /\ scanner \in {Scanner_new(src, NewSink) : src \in FrontSources}
    /\ errors_collected = <<>>
    /\ had_error = FALSE
    /\ had_runtime_error = FALSE
    /\ ScanIdle

ParseUnchanged ==
    UNCHANGED <<idx, locals, frames, refs, env, out, hist, op, nops, had_runtime_error,
                scanner>>

\* the parser after a step, and the sink it reported to
InstallParser(p) ==
    /\ parser' = p
    /\ errors_collected' = p.error_reporter.errors_collected
    /\ had_error' = p.error_reporter.had_error
    /\ ParseUnchanged

\* main.rs, run: Parser::new on the tokens of the scanner
NewParser ==
    /\ phase = "scanned"
    /\ InstallParser(Parser_new(scanner.tokens, scanner.error_reporter))
    /\ phase' = "parse"
    /\ UNCHANGED prog

\* Parser::parse_stmts, one turn of its loop
Parsed(c) ==
    /\ InstallParser(c.st)
    /\ prog' = IF Failed(c) THEN prog ELSE Append(prog, c.r.v)
    /\ phase' = IF c.st.panicked THEN "panicked" ELSE "parse"

ParseDeclaration ==
    /\ phase = "parse"
    /\ ~Parser_is_at_end(parser)
    /\ Parsed(declaration(parser))

\* Parser::parse_stmts, the end of its loop
ParseEnd ==
    /\ phase = "parse"
    /\ Parser_is_at_end(parser)
    /\ phase' = "parsed"
    /\ UNCHANGED <<prog, parser, errors_collected, had_error>>
    /\ ParseUnchanged

FrontNext == ScanToken \/ ScanEnd \/ NewParser \/ ParseDeclaration \/ ParseEnd

FrontSpec == FrontInit /\ [][FrontNext]_vars

(***************************************************************************)
(* C20: through scanning and parsing, the word break is scanned as a token *)
(* of its own kind; break; in a while loop in a function is accepted, with *)
(* no diagnostic and a break statement as the body of the loop; and break; *)
(* at top level is rejected: a compile-time error is reported and no       *)
(* statement is made of it.                                                *)
(***************************************************************************)
\* break;
TopLevelBreak == BreakPiece

\* fun f() { while (true) break; }
NestedBreak == Join(<<FunPiece("{"), WhilePiece, BreakPiece, ClosePiece("}")>>)

\* one function, its body one while statement, the body of that a break
BreakInLoopInFunction(stmts) ==
    /\ Len(stmts) = 1
    /\ stmts[1].t = "Function"
    /\ Len(stmts[1].body) = 1
    /\ stmts[1].body[1].t = "While"
    /\ stmts[1].body[1].body = BreakStmt

C20_BreakOnlyInsideLoop ==
    /\ \A i \in 1..Len(scanner.tokens) :
          scanner.tokens[i].lexeme = "break" => scanner.tokens[i].token_type = "Break"
    /\ phase = "parsed" /\ scanner.source = NestedBreak =>
          ~had_error /\ BreakInLoopInFunction(prog)
    /\ phase = "parsed" /\ scanner.source = TopLevelBreak =>
          had_error /\ prog = <<>>

(***************************************************************************)
(* ParseSpec: Parser::parse_stmts on token vectors, a Parser made of each  *)
(* by Parser::new with a fresh sink.  The vectors end with the             *)
(* end-of-input token, as the vector of Scanner::scan_tokens does, and     *)
(* hold no Break token, which the scanner never makes.  They are           *)
(*   TokenLists    every sequence of at most MaxTokens tokens of           *)
(*                 TokenAlphabet                                           *)
(*   StmtLists     at most MaxStmts pieces of StmtPieces: statements,      *)
(*                 well-formed and malformed, and the tokens that open and *)
(*                 close a block and a function body                       *)
(*   ExprLists     at most MaxExprPieces pieces of ExprPieces: operands,   *)
(*                 ( ) . = and ;                                           *)
(*   TernaryLists  a ? a : a ... ; with at most MaxTernary conditionals    *)
(*   LimitLists    calls and function declarations with about             *)
(*                 CallArgsLimit arguments and ParamsLimit parameters      *)
(***************************************************************************)
MaxTokens == 4
MaxStmts == 4
MaxExprPieces == 4
MaxTernary == 2
MaxOver == 2

Tk(token_type, lexeme) == Token_new(token_type, lexeme, LiteralNone, 1)

IdToken == Tk("Identifier", "a")
NumberToken == Token_new("Number", "1", LiteralNumber(Number(1)), 1)
EofToken == Tk("Eof", "")

TokenAlphabet ==
    {IdToken, Tk("Equal", "="), Tk("SemiColon", ";"), Tk("Var", "var"),
     Tk("RightParen", ")"), Tk("Print", "print"), Tk("LeftBrace", "["),
     Tk("RightBrace", "]")}

TokenLists ==
    {toks \o <<EofToken>> : toks \in UNION {[1..k -> TokenAlphabet] : k \in 0..MaxTokens}}

\* print ;   a statement with no expression
MalformedStmt == <<Tk("Print", "print"), Tk("SemiColon", ";")>>
\* a ;
GoodStmt == <<IdToken, Tk("SemiColon", ";")>>
\* [   and   ]   the tokens LeftBrace and RightBrace
BlockOpen == <<Tk("LeftBrace", "[")>>
BlockClose == <<Tk("RightBrace", "]")>>
\* fun f ( ) [
FunOpen ==
    <<Tk("Fun", "fun"), Tk("Identifier", "f"), Tk("LeftParen", "("), Tk("RightParen", ")"),
      Tk("LeftBrace", "[")>>

StmtPieces == {MalformedStmt, GoodStmt, BlockOpen, BlockClose, FunOpen}

StmtLists ==
    {Join(ps) \o <<EofToken>> : ps \in UNION {[1..k -> StmtPieces] : k \in 0..MaxStmts}}

ExprPieces ==
    {<<IdToken>>,
     <<Tk("LeftParen", "("), IdToken, Tk("RightParen", ")")>>,
     <<IdToken, Tk("Dot", "."), Tk("Identifier", "b")>>,
     <<IdToken, Tk("LeftParen", "("), Tk("RightParen", ")")>>,
     <<IdToken, Tk("Plus", "+"), IdToken>>,
     <<NumberToken>>,
     <<Tk("Equal", "=")>>,
     <<Tk("SemiColon", ";")>>}

ExprLists ==
    {Join(ps) \o <<EofToken>> : ps \in UNION {[1..k -> ExprPieces] : k \in 0..MaxExprPieces}}

\* a ? a : a ? a : a ... ;   with k conditionals
TernaryChain(k) ==
    <<IdToken>>
    \o Join([i \in 1..k |-> <<Tk("QuestionMark", "?"), IdToken, Tk("Colon", ":"), IdToken>>])
    \o <<Tk("SemiColon", ";"), EofToken>>

TernaryLists == {TernaryChain(k) : k \in 0..MaxTernary}

\* a , a , ... , a   with n names
CommaList(n) ==
    IF n = 0 THEN <<>>
    ELSE [i \in 1..(2 * n - 1) |-> IF i % 2 = 1 THEN IdToken ELSE Tk("Comma", ",")]

\* a ( a , ... , a ) ;   a call with n arguments
CallWith(n) ==
    <<IdToken, Tk("LeftParen", "(")>> \o CommaList(n)
    \o <<Tk("RightParen", ")"), Tk("SemiColon", ";"), EofToken>>

\* fun f ( a , ... , a ) [ ]   a function declaration with n parameters
FunWith(n) ==
    <<Tk("Fun", "fun"), Tk("Identifier", "f"), Tk("LeftParen", "(")>> \o CommaList(n)
    \o <<Tk("RightParen", ")"), Tk("LeftBrace", "["), Tk("RightBrace", "]"), EofToken>>

LimitLists ==
    {CallWith(n) : n \in (CallArgsLimit - 1)..(CallArgsLimit + MaxOver)}
    \cup {FunWith(n) : n \in (ParamsLimit - 1)..(ParamsLimit + MaxOver)}

ParseInputs == TokenLists \cup StmtLists \cup ExprLists \cup TernaryLists \cup LimitLists

ParseInit ==
    /\ phase = "parse"
    /\ parser \in {Parser_new(toks, NewSink) : toks \in ParseInputs}
    /\ prog = <<>> /\ idx = 0 /\ locals = <<>> /\ frames = <<>> /\ refs = <<>> /\ env = 1
    /\ out = <<>> /\ hist = <<>> /\ op = NoOp /\ nops = 0
    /\ scanner = NoScanner
    /\ errors_collected = <<>>
    /\ had_error = FALSE
    /\ had_runtime_error = FALSE

ParseNext == ParseDeclaration \/ ParseEnd

ParseSpec == ParseInit /\ [][ParseNext]_vars

(***************************************************************************)
(* Measures of the parse result and of the token vector parsed.            *)
(***************************************************************************)
\* the statements directly inside a statement
StmtsOf(stmt) ==
    CASE stmt.t = "Block" -> stmt.stmts
      [] stmt.t = "Function" -> stmt.body
      [] OTHER -> <<>>

\* the expression statements in a list of statements, at every depth
RECURSIVE ExpressionStmts(_)
ExpressionStmts(stmts) ==
    IF stmts = <<>> THEN 0
    ELSE (IF Head(stmts).t = "Expression" THEN 1 ELSE 0)
         + ExpressionStmts(StmtsOf(Head(stmts))) + ExpressionStmts(Tail(stmts))

\* the places of a token vector that hold a token
Places(tokens, token) == {i \in 1..Len(tokens) : tokens[i] = token}

\* the lists of statement pieces whose [ and ] match
Opened(ps, k) == Cardinality({i \in 1..k : ps[i] \in {BlockOpen, FunOpen}})

Closed(ps, k) == Cardinality({i \in 1..k : ps[i] = BlockClose})

WellNested(ps) ==
    /\ \A k \in 1..Len(ps) : Opened(ps, k) >= Closed(ps, k)
    /\ Opened(ps, Len(ps)) = Closed(ps, Len(ps))

RecoveryLists ==
    {Join(ps) \o <<EofToken>> :
        ps \in {qs \in UNION {[1..k -> StmtPieces] : k \in 0..MaxStmts} : WellNested(qs)}}

\* the malformed statements print ; and the well-formed statements a ; of a
\* token vector
MalformedIn(tokens) == Cardinality(Places(tokens, Tk("Print", "print")))

WellFormedIn(tokens) == Cardinality(Places(tokens, IdToken))

(***************************************************************************)
(* C21: when parse_stmts has parsed statements a ; and malformed           *)
(* statements print ; nested in any way in blocks and function bodies      *)
(* whose brackets match, there is exactly one diagnostic for each          *)
(* malformed statement and every statement a ; is in the parse result.     *)
(***************************************************************************)
C21_PanicModeRecovery ==
    phase = "parsed" /\ parser.tokens \in RecoveryLists =>
        /\ Len(errors_collected) = MalformedIn(parser.tokens)
        /\ ExpressionStmts(prog) = WellFormedIn(parser.tokens)

\* the same of the vectors with no block and no function body
C21_TopLevelRecovery ==
    phase = "parsed" /\ parser.tokens \in RecoveryLists
    /\ Places(parser.tokens, Tk("LeftBrace", "[")) = {} =>
        /\ Len(errors_collected) = MalformedIn(parser.tokens)
        /\ ExpressionStmts(prog) = WellFormedIn(parser.tokens)

(***************************************************************************)
(* C22: when the statement at the cursor begins with an assignment whose   *)
(* two sides parse, parse_stmts makes of it an assign node if the left     *)
(* side parsed as a variable and a set node on the same object and name    *)
(* if it parsed as a field get; for every other left side, a               *)
(* parenthesised variable among them, it reports "Invalid assignment       *)
(* target" at the = token, once, and adds no statement.                    *)
(***************************************************************************)
\* the left side of the statement at the cursor, the value after its = and
\* the = token itself
LeftSide(p) == or(p)

EqualsToken(p) == Parser_peek(LeftSide(p).st)

RightSide(p) == assignment(Parser_advance(LeftSide(p).st))

\* the statement at the cursor begins with   left = value   , both parsed
AssignmentAt(p) ==
    /\ ~Parser_is_at_end(p)
    /\ p.tokens \in ExprLists
    /\ ~Failed(LeftSide(p))
    /\ check(LeftSide(p).st, "Equal")
    /\ ~Failed(RightSide(p))

ValidTarget(expr) == expr.t \in {"Variable", "Get"}

\* the node of an assignment to a valid target
AssignmentOf(target, value) ==
    IF target.t = "Variable" THEN AssignExpr(target.id, target.name, value)
    ELSE SetExpr(target.object, target.name, value)

\* the diagnostic of an invalid target
InvalidTargetAt(token) ==
    [via |-> "report", line |-> token.line, location |-> " at '" \o token.lexeme \o "'",
     msg |-> "Invalid assignment target"]

AssignmentParsed ==
    /\ phase = "parse" /\ AssignmentAt(parser)
    /\ ParseDeclaration
    /\ IF ValidTarget(LeftSide(parser).r.v)
       THEN /\ expression(parser) =
                  R(RightSide(parser).st,
                    Ok(AssignmentOf(LeftSide(parser).r.v, RightSide(parser).r.v)))
            /\ check(RightSide(parser).st, "SemiColon") =>
                  /\ prog' = Append(prog, ExpressionStmt(AssignmentOf(LeftSide(parser).r.v,
                                                                     RightSide(parser).r.v)))
                  /\ errors_collected' = errors_collected
       ELSE /\ expression(parser).r = Err("InvalidAssignmentTarget")
            /\ prog' = prog
            /\ EqualsToken(parser).token_type = "Equal"
            /\ errors_collected' = Append(errors_collected, InvalidTargetAt(EqualsToken(parser)))
            /\ had_error'

C22_AssignmentTargets ==
    [][phase = "parse" /\ AssignmentAt(parser) /\ ParseDeclaration => AssignmentParsed]_vars

\* ( a ) = 1 ;   has been refused at its =
C22_WitnessTargets ==
    /\ phase = "parsed"
    /\ parser.tokens = <<Tk("LeftParen", "("), IdToken, Tk("RightParen", ")"), Tk("Equal", "="),
                         NumberToken, Tk("SemiColon", ";"), EofToken>>
    /\ prog = <<>>
    /\ errors_collected = <<InvalidTargetAt(Tk("Equal", "="))>>

(***************************************************************************)
(* C23: no call in the parse result has more than 255 arguments and no     *)
(* function declaration in it more than 255 parameters; a call with 255    *)
(* arguments is parsed, and a call with 256 arguments or a function with   *)
(* 256 parameters is refused with a diagnostic and gives no statement.     *)
(***************************************************************************)
\* the calls and the function declarations among the statements parsed
CallsIn(stmts) == {i \in 1..Len(stmts) : stmts[i].t = "Expression" /\ stmts[i].e.t = "Call"}

FunctionsIn(stmts) == {i \in 1..Len(stmts) : stmts[i].t = "Function"}

\* the part of the claim on calls
C23_CallArgumentLimit ==
    /\ \A i \in CallsIn(prog) : Len(prog[i].e.arguments) <= CallArgsLimit
    /\ phase = "parsed" /\ parser.tokens = CallWith(CallArgsLimit) =>
          /\ ~had_error
          /\ CallsIn(prog) = {1}
          /\ Len(prog[1].e.arguments) = CallArgsLimit
    /\ phase = "parsed" /\ parser.tokens = CallWith(CallArgsLimit + 1) =>
          had_error /\ prog = <<>>

C23_ArgumentAndParameterLimit ==
    /\ C23_CallArgumentLimit
    /\ \A i \in FunctionsIn(prog) : Len(prog[i].params) <= ParamsLimit
    /\ phase = "parsed" /\ parser.tokens = FunWith(ParamsLimit + 1) =>
          had_error /\ prog = <<>>

(***************************************************************************)
(* C24: when the Resolver has run, it has reported "Variable is undefined" *)
(* once for every read of a variable in its own initializer inside a local *)
(* scope (a block, a function body, a method body), so for   var a = a;    *)
(* there, and for no other read: not for a read after the declaration is   *)
(* complete, and not for a read of a name that only an outer scope holds.  *)
(***************************************************************************)
\* the reads of a name in an expression, and in a list of expressions
RECURSIVE ReadsOf(_, _)
RECURSIVE ReadsIn(_, _)
ReadsOf(expr, name) ==
    CASE expr.t = "Variable" -> IF expr.name = name THEN 1 ELSE 0
      [] expr.t \in {"Binary", "Logical"} -> ReadsOf(expr.left, name) + ReadsOf(expr.right, name)
      [] expr.t = "Grouping" -> ReadsOf(expr.e, name)
      [] expr.t = "Unary" -> ReadsOf(expr.right, name)
      [] expr.t = "Assign" -> ReadsOf(expr.value, name)
      [] expr.t = "Get" -> ReadsOf(expr.object, name)
      [] expr.t = "Set" -> ReadsOf(expr.value, name) + ReadsOf(expr.object, name)
      [] expr.t = "Call" -> ReadsOf(expr.callee, name) + ReadsIn(expr.arguments, name)
      [] OTHER -> 0

ReadsIn(exprs, name) ==
    IF exprs = <<>> THEN 0 ELSE ReadsOf(Head(exprs), name) + ReadsIn(Tail(exprs), name)

\* the reads of a variable in its own initializer in a statement, and in a
\* list of statements; local: the statement is inside a local scope
RECURSIVE SelfReadsOf(_, _)
RECURSIVE SelfReadsIn(_, _)
RECURSIVE SelfReadsOfMethods(_)
SelfReadsOf(stmt, local) ==
    CASE stmt.t = "Var" -> IF local THEN ReadsOf(stmt.initializer, stmt.name) ELSE 0
      [] stmt.t = "Block" -> SelfReadsIn(stmt.stmts, TRUE)
      [] stmt.t = "Function" -> SelfReadsIn(stmt.body, TRUE)
      [] stmt.t = "Class" -> SelfReadsOfMethods(stmt.methods)
      [] stmt.t = "While" -> SelfReadsOf(stmt.body, local)
      [] stmt.t = "If" ->
            SelfReadsOf(stmt.then_branch, local)
            + (IF stmt.else_branch = NoStmt THEN 0 ELSE SelfReadsOf(stmt.else_branch, local))
      [] OTHER -> 0

SelfReadsIn(stmts, local) ==
    IF stmts = <<>> THEN 0
    ELSE SelfReadsOf(Head(stmts), local) + SelfReadsIn(Tail(stmts), local)

SelfReadsOfMethods(methods) ==
    IF methods = <<>> THEN 0
    ELSE SelfReadsIn(Head(methods).body, TRUE) + SelfReadsOfMethods(Tail(methods))

\* the reports of the Resolver with a message
ResolverReports(msg) ==
    {k \in 1..hist.resolverReports : errors_collected[k].msg = msg}

C24_SelfInitializerReported ==
    phase # "resolve" =>
        Cardinality(ResolverReports("Variable is undefined")) = SelfReadsIn(prog, FALSE)

\* the Resolver has run on   fun f() { var a = a; }   and on
\* { var b = a; var c = b; { print c; print a; } }   and has reported once
C24_WitnessSelfInitializer ==
    /\ phase # "resolve"
    /\ \E i, j \in 1..Len(prog) : prog[i] = ResolverOps[1] /\ prog[j] = ResolverOps[4]
    /\ Cardinality(ResolverReports("Variable is undefined")) = 1

(***************************************************************************)
(* C25: when the Resolver has run, every violation it looks for (a return  *)
(* outside a function, a return with a value in init, this outside a       *)
(* class, a class that names itself as superclass, a second declaration of *)
(* a name in a local scope, a variable read in its own initializer) has    *)
(* been reported, each report is a compile-time one, and before any        *)
(* statement is executed the sink has the compile-error flag set and the   *)
(* runtime-error flag clear.                                               *)
(***************************************************************************)
\* the statements of the Resolver scenario that hold a violation, each with
\* the message of its report
Violations ==
    {[stmt |-> ResolverOps[1], msg |-> "Variable is undefined"],
     [stmt |-> ResolverOps[2], msg |-> "Variable is undefined"],
     [stmt |-> ResolverOps[3], msg |-> "Variable is undefined"],
     [stmt |-> ResolverOps[6], msg |-> "Can't return from top-level code"],
     [stmt |-> ResolverOps[7], msg |-> "Can't use 'this' outside of a class"],
     [stmt |-> ResolverOps[8], msg |-> "A class can't inherit from itself"],
     [stmt |-> ResolverOps[9], msg |-> "Can't return from an initializer"],
     [stmt |-> ResolverOps[10],
      msg |-> "Already a varibale with this name in this scope: 'd'"]}

Holds(stmts, stmt) == \E i \in 1..Len(stmts) : stmts[i] = stmt

C25_ViolationsAreCompileErrors ==
    phase # "resolve" =>
        /\ \A v \in Violations : Holds(prog, v.stmt) => ResolverReports(v.msg) # {}
        /\ \A k \in 1..hist.resolverReports : errors_collected[k].via = "report"
        /\ hist.resolverReports > 0 /\ Executed = <<>> => had_error /\ ~had_runtime_error

\* the part of the claim that holds: every violation is reported
C25_ViolationsAreReported ==
    phase # "resolve" =>
        \A v \in Violations : Holds(prog, v.stmt) => ResolverReports(v.msg) # {}

(***************************************************************************)
(* RunSpec: run() of main.rs in file mode (allow_exprs false), from the    *)
(* text to the end of the run.  The text is scanned and parsed as in       *)
(* FrontSpec; then, with a compile-time error in the sink, run returns,    *)
(* and otherwise Interpreter::interpret executes the statements parsed.    *)
(* No Resolver runs: run() has none.  The texts are at most MaxRunPieces   *)
(* pieces, one after the other.                                            *)
(***************************************************************************)
MaxRunPieces == 3

\* print 1;
PrintOnePiece == <<"p", "r", "i", "n", "t", " ", "1", ";", " ">>

\* print ;     which the parser refuses
PrintNothingPiece == <<"p", "r", "i", "n", "t", " ", ";", " ">>

\* @           which the scanner refuses
StrayPiece == <<"@", " ">>

\* print a;    which fails when it is executed
PrintUnknownPiece == <<"p", "r", "i", "n", "t", " ", "a", ";", " ">>

RunPieces == {PrintOnePiece, PrintNothingPiece, StrayPiece, PrintUnknownPiece}

RunPieceLists == UNION {[1..k -> RunPieces] : k \in 0..MaxRunPieces}

RunSources == {Join(ps) : ps \in RunPieceLists}

RunInit ==
    /\ phase = "scan"
    /\ scanner \in {Scanner_new(src, NewSink) : src \in RunSources}
    /\ errors_collected = <<>>
    /\ had_error = FALSE
    /\ had_runtime_error = FALSE
    /\ ScanIdle

\* main.rs, run, after parse_stmts: with had_error the errors collected are
\* printed and run returns
AfterParse_running(sink) == "run"

AfterParse(sink) == IF sink.had_error THEN "done" ELSE "run"

\* Interpreter::new on the sink, and the test of had_error after parse_stmts
StartInterpreter ==
    /\ phase = "parsed"
    /\ Install(NewInterpreter(St.sink))
    /\ phase' = AfterParse(St.sink)
    /\ idx' = 1
    /\ UNCHANGED <<prog, locals, op, nops, scanner, parser>>

RunNext ==
    \/ ScanToken \/ ScanEnd \/ NewParser \/ ParseDeclaration \/ ParseEnd
    \/ StartInterpreter \/ InterpretStmt \/ InterpretEnd

RunSpec == RunInit /\ [][RunNext]_vars

(***************************************************************************)
(* C26: in file mode nothing is executed while the text is scanned and     *)
(* parsed; when parse_stmts has returned, the sink holds one diagnostic    *)
(* for each faulty piece of the text, wherever it stands, and none is      *)
(* added later; and in a run with a compile-time error no statement is     *)
(* executed: nothing is printed and no runtime error is reported.          *)
(***************************************************************************)
\* the pieces of a list that the scanner or the parser refuses
FaultyPieces(ps) == {i \in 1..Len(ps) : ps[i] \in {PrintNothingPiece, StrayPiece}}

\* the texts with the numbers of their faulty pieces
RunCases == {[source |-> Join(ps), faults |-> Cardinality(FaultyPieces(ps))] : ps \in RunPieceLists}

\* the compile-time diagnostics in the sink
Diagnostics == {k \in 1..Len(errors_collected) : errors_collected[k].via = "report"}

NothingExecuted ==
    /\ out = <<>>
    /\ ~had_runtime_error
    /\ hist # <<>> => Executed = <<>>

C26_CompileErrorsBlockExecution ==
    /\ phase \in {"scan", "scanned", "parse", "parsed"} => NothingExecuted
    /\ phase \in {"parsed", "run", "done"} =>
          \A c \in RunCases :
              c.source = scanner.source => Cardinality(Diagnostics) = c.faults
    /\ had_error => NothingExecuted

\* print 1; print ; print 1;   has been run to its end: one diagnostic and
\* no output
C26_WitnessBlocked ==
    /\ phase = "done"
    /\ scanner.source = Join(<<PrintOnePiece, PrintNothingPiece, PrintOnePiece>>)
    /\ Cardinality(Diagnostics) = 1
    /\ had_error
    /\ out = <<>>

(***************************************************************************)
(* C27: a chain of conditionals   a ? a : a ? a : a ... ;   is parsed      *)
(* without a diagnostic into nodes that nest to the right: each            *)
(* conditional is a ? node whose right child is a : node with the two      *)
(* branches, and the conditional that follows is the else-branch.          *)
(***************************************************************************)
\* the variable node made of the token at a place
VariableAt(place) == Variable(place, IdToken.lexeme)

\* k conditionals that start at a place, nested to the right
RECURSIVE RightNested(_, _)
RightNested(k, place) ==
    IF k = 0 THEN VariableAt(place)
    ELSE BinaryExpr(VariableAt(place), "?",
                    BinaryExpr(VariableAt(place + 2), ":", RightNested(k - 1, place + 4)))

\* and nested to the left, the earlier conditionals the condition of the last
RECURSIVE LeftNested(_)
LeftNested(k) ==
    IF k = 0 THEN VariableAt(1)
    ELSE BinaryExpr(LeftNested(k - 1), "?",
                    BinaryExpr(VariableAt(4 * k - 1), ":", VariableAt(4 * k + 1)))

C27_TernaryRightAssociative ==
    \A k \in 0..MaxTernary :
        phase = "parsed" /\ parser.tokens = TernaryChain(k) =>
            ~had_error /\ prog = <<ExpressionStmt(RightNested(k, 1))>>

\* what the parser makes of the chains
C27_TernaryLeftAssociative ==
    \A k \in 0..MaxTernary :
        phase = "parsed" /\ parser.tokens = TernaryChain(k) =>
            ~had_error /\ prog = <<ExpressionStmt(LeftNested(k))>>

(***************************************************************************)
(* C28: every execute_block that has ended, the body of a block or of a    *)
(* function call, at any depth, and whether it ended normally, with a      *)
(* runtime error, with a return or with a break, has left the current      *)
(* frame of the interpreter the frame it found; between the statements of  *)
(* the program the current frame is the global one.                        *)
(***************************************************************************)
C28_BlockRestoresEnvironment ==
    phase \in {"run", "done"} =>
        /\ \A b \in hist.blocks : b.after = b.before
        /\ env = Globals

\* blocks entered from a frame that is not the global one have ended
\* normally, with a return, with a break and with a runtime error
C28_WitnessBlocks ==
    /\ phase = "done"
    /\ \E b \in hist.blocks : b.before # Globals /\ b.ended = "ok"
    /\ \E b \in hist.blocks : b.before # Globals /\ b.ended = "Return"
    /\ \E b \in hist.blocks : b.before # Globals /\ b.ended = "Breaking"
    /\ \E b \in hist.blocks : b.before # Globals /\ b.ended = "DivideByZero"

(***************************************************************************)
(* C29: no statement   object.name = value;   that has been executed has   *)
(* ended in a panic, the borrow conflict of the RefCell of the instance;   *)
(* o.x = o.x + 1;   on an instance o with a field x has completed.         *)
(***************************************************************************)
\* the executed statements that are field assignments
IsFieldSet(stmt) == stmt.t = "Expression" /\ stmt.e.t = "Set"

FieldSets == {k \in 1..Len(Executed) : IsFieldSet(prog[Executed[k].i])}

\* o.x = o.x + 1;
SetFromOwnField == ClassesOps[5]

C29_FieldSetNeverPanics ==
    phase \in {"run", "done", "panicked"} =>
        /\ \A k \in FieldSets : Executed[k].r.k # "panic"
        /\ \A k \in FieldSets : prog[Executed[k].i] = SetFromOwnField => Executed[k].r = Ok(Nil)

\* the field assignments whose value does not touch the instance complete
C29_PlainFieldSetCompletes ==
    phase \in {"run", "done", "panicked"} =>
        \A k \in FieldSets :
            prog[Executed[k].i].e.value.t = "Literal" => Executed[k].r = Ok(Nil)

(***************************************************************************)
(* ParseFairSpec: ParseSpec with the loop of parse_stmts going on as long  *)
(* as it can, as the one thread of the program does.                       *)
(***************************************************************************)
\* a turn of the loop can be taken and changes the state: what
\* ENABLED <<ParseDeclaration>>_vars says, as a state predicate
TurnEnabled ==
    /\ phase = "parse"
    /\ ~Parser_is_at_end(parser)
    /\ (declaration(parser).st # parser \/ ~Failed(declaration(parser)))

\* the loop is not left waiting before a turn it can take: weak fairness of
\* ParseDeclaration
TurnsTaken == []<>(~TurnEnabled) \/ []<><<ParseDeclaration>>_vars

ParseFairSpec == ParseInit /\ [][ParseNext]_vars /\ WF_vars(ParseEnd) /\ TurnsTaken

(***************************************************************************)
(* C30: on every token vector that ends with the end-of-input token,       *)
(* parse_stmts returns: the parser never panics on an index, the cursor    *)
(* stays on a token of the vector and never passes the end-of-input token, *)
(* every turn of the loop consumes at least one token, and the loop comes  *)
(* to its end.                                                             *)
(***************************************************************************)
\* the cursor is on a token, and no end-of-input token is behind it
CursorInRange(p) ==
    /\ ~p.panicked
    /\ p.current + 1 \in 1..Len(p.tokens)
    /\ \A i \in 1..p.current : p.tokens[i].token_type # "Eof"

\* a turn of the loop of parse_stmts leaves the cursor in range and further on
TurnAdvances(p) ==
    /\ CursorInRange(declaration(p).st)
    /\ declaration(p).st.current > p.current

CursorSafe ==
    /\ phase # "panicked"
    /\ phase \in {"parse", "parsed"} => CursorInRange(parser)
    /\ phase = "parse" /\ ~Parser_is_at_end(parser) => TurnAdvances(parser)

C30_ParseStmtsTerminates == []CursorSafe /\ <>(phase = "parsed")

\* parse_stmts has returned from a vector of MaxTokens tokens, none of which
\* it made a statement of
C30_WitnessTerminated ==
    /\ phase = "parsed"
    /\ Len(parser.tokens) = MaxTokens + 1
    /\ parser.current = MaxTokens
    /\ prog = <<>>
    /\ Len(errors_collected) >= 2

====
